---- MODULE Spec2Model ----
(***************************************************************************)
(* Model of the GANN JavaScript SDK session-negotiation core:              *)
(*   - src/src/signaling.ts    SignalingChannel over a WebSocketLike       *)
(*   - src/unnamed/part_001    quic_session.ts, the direct-first initiator *)
(*                             and responder                               *)
(*   - src/unnamed/part_000    GannClient: dialQuicDirectFirst and         *)
(*                             acceptQuicDirectFirst                       *)
(* Strings that the code trims are sequences of one-character strings.     *)
(* Times are counted in ticks of 100 ms (the relay-bind poll interval).    *)
(***************************************************************************)
EXTENDS Integers, Sequences, FiniteSets, TLC

VARIABLES
    ch,        \* the SignalingChannel and its socket
    rch,       \* the responder's SignalingChannel, where the two sides of a session meet
    api,       \* the call of close() or of a send operation that is returning
    inbound,   \* the inbound frame whose handler is returning
    hist,      \* what happened so far
    waits,     \* the waitForSessionEvent promises
    ini,       \* a call of initiateQuicSessionDirectFirst
    rsp,       \* a call of respondQuicOfferDirectFirst
    acc,       \* a call of acceptQuicDirectFirst
    unit       \* an object or a function of the library that is used on its own,
               \* or a second call on the channel

vars == <<ch, rch, api, inbound, hist, waits, ini, rsp, acc, unit>>
negotiation == <<rch, waits, ini, rsp, acc, unit>>

(***************************************************************************)
(* Bounds of the model                                                     *)
(***************************************************************************)
\* API sends accepted per run (frames queued plus frames written)
MaxSends == 2
\* socket error events per run
MaxErrors == 1
\* close() calls per run
MaxCloseCalls == 2
\* begin() calls on one LoadTracker
MaxBegins == 3
\* ticks an offer is under way from the initiator to the responder
MaxOfferDelay == 2

(***************************************************************************)
(* Values                                                                  *)
(***************************************************************************)
\* the JavaScript value undefined where a string is expected, and a key that
\* JSON.stringify left out of the frame
Undef == <<"#undefined">>
Absent == <<"#absent">>

SP == " "

\* String(value ?? "")
StringOf(value) == IF value = Undef THEN <<>> ELSE value

RECURSIVE TrimLeft(_)
TrimLeft(s) == IF s # <<>> /\ Head(s) = SP THEN TrimLeft(Tail(s)) ELSE s

RECURSIVE TrimRight(_)
TrimRight(s) ==
    IF s # <<>> /\ s[Len(s)] = SP THEN TrimRight(SubSeq(s, 1, Len(s) - 1)) ELSE s

\* String.prototype.trim
Trim(s) == TrimRight(TrimLeft(s))

\* what callers pass as targetAgentId and sessionId
AgentIdInputs == {<<>>, <<SP>>, <<SP, "a", SP>>}
SessionIdInputs == {Undef, <<SP, SP>>, <<"s", SP>>}
\* the opaque offer / answer / candidate, and the disconnect reason

SendOps == {"sendQuicOffer", "sendQuicAnswer", "sendQuicCandidate", "disconnectSession"}

\* socket.readyState
CONNECTING == 0
OPEN == 1
CLOSING == 2
CLOSED == 3

\* the fields of an inbound signaling payload that the negotiation reads
NoBody == [session_id |-> Absent, from |-> Absent, kind |-> "absent", relay |-> "absent"]
\* the argument of an event that carries no signaling event
NoArg == [sessionId |-> <<>>, from |-> <<>>, kind |-> "none", relay |-> "absent"]

EventNames == {"open", "close", "error", "signaling", "session", "control", "heartbeat", "raw"}
TypedEvents == {"signaling", "session", "control", "heartbeat"}

(***************************************************************************)
(* SignalingChannel: the object's fields, and what it has done so far      *)
(***************************************************************************)
NewChannel(rs, rdy) ==
    [ readyState |-> rs,            \* this.socket.readyState
      closeRequested |-> FALSE,     \* this.socket.close() was called
      closeFired |-> FALSE,         \* the socket has emitted its close event
      attached |-> TRUE,            \* the socket handlers of attachNodeSocket are on
      isClosed |-> FALSE,
      settledReady |-> rdy # "pending",
      ready |-> rdy,                \* the ready promise
      pendingFrames |-> <<>>,
      written |-> <<>>,             \* frames given to this.socket.send, in order
      listeners |-> [e \in {} |-> <<>>],   \* this.emitter.listeners: event -> bucket
      emitted |-> [e \in EventNames |-> 0],        \* emitter.emit calls per event name
      out |-> <<>>,                 \* events emitted by the handler that runs now
      thrown |-> "none" ]           \* the error the current call threw

\* between two handlers nothing is being emitted and nothing is being thrown
Rest(c) == [c EXCEPT !.out = <<>>, !.thrown = "none"]

\* SimpleEventEmitter.emit: the listeners of the event at this moment are
\* invoked with the argument. Emissions of the lifecycle events are counted,
\* also when nobody listens; error events are bounded by MaxErrors.
emit(c, event, arg) ==
    [c EXCEPT !.emitted[event] = IF event \in {"open", "close", "error"} THEN @ + 1 ELSE @,
              !.out = Append(@, [event |-> event, arg |-> arg,
                                 handlers |-> IF event \in DOMAIN c.listeners
                                              THEN c.listeners[event] ELSE <<>>])]

\* SimpleEventEmitter.clear
clear(c) == [c EXCEPT !.listeners = [e \in {} |-> <<>>]]

\* SimpleEventEmitter.on and the unsubscribe function it returns: a bucket is a
\* Set, which keeps insertion order and holds a listener once
on(c, event, listener) ==
    LET bucket == IF event \in DOMAIN c.listeners THEN c.listeners[event] ELSE <<>>
        added == IF \E i \in 1..Len(bucket) : bucket[i] = listener THEN bucket
                 ELSE Append(bucket, listener)
    IN [c EXCEPT !.listeners = [e \in DOMAIN @ \cup {event} |->
                                   IF e = event THEN added ELSE @[e]]]

\* SimpleEventEmitter.off: a bucket that becomes empty is deleted
off(c, event, listener) ==
    IF event \notin DOMAIN c.listeners THEN c
    ELSE LET left == SelectSeq(c.listeners[event], LAMBDA l : l # listener)
         IN [c EXCEPT !.listeners = [e \in IF left = <<>> THEN DOMAIN @ \ {event}
                                                           ELSE DOMAIN @ |->
                                        IF e = event THEN left ELSE @[e]]]

resolveReady(c) ==
    IF ~c.settledReady THEN [c EXCEPT !.settledReady = TRUE, !.ready = "resolved"] ELSE c

rejectReady(c) ==
    IF ~c.settledReady THEN [c EXCEPT !.settledReady = TRUE, !.ready = "rejected"] ELSE c

\* a faulty flushLoop, which drains the queue from its tail
RECURSIVE flushLoop_FromTail(_)
flushLoop_FromTail(c) ==
    IF c.pendingFrames = <<>> THEN c
    ELSE flushLoop_FromTail(
             [c EXCEPT !.pendingFrames = SubSeq(@, 1, Len(@) - 1),
                       !.written = Append(@, c.pendingFrames[Len(c.pendingFrames)])])

RECURSIVE flushLoop(_)
flushLoop(c) ==
    IF c.pendingFrames = <<>> THEN c
    ELSE flushLoop([c EXCEPT !.pendingFrames = Tail(@),
                             !.written = Append(@, Head(c.pendingFrames))])

flushQueue(c) ==
    IF c.readyState # OPEN \/ c.pendingFrames = <<>> THEN c ELSE flushLoop(c)

\* a faulty completeClose, which does not set the isClosed latch
completeClose_NoLatch(c) ==
    IF c.isClosed THEN c
    ELSE LET c1 == [c EXCEPT !.attached = FALSE]
             c2 == IF ~c1.settledReady THEN rejectReady(c1) ELSE c1
         IN clear(emit(c2, "close", NoArg))

\* a faulty completeClose, which leaves the handlers on the socket
completeClose_NoDetach(c) ==
    IF c.isClosed THEN c
    ELSE LET c1 == [c EXCEPT !.isClosed = TRUE]
             c2 == IF ~c1.settledReady THEN rejectReady(c1) ELSE c1
         IN clear(emit(c2, "close", NoArg))

completeClose(c) ==
    IF c.isClosed THEN c
    ELSE LET c1 == [c EXCEPT !.isClosed = TRUE, !.attached = FALSE]
             c2 == IF ~c1.settledReady THEN rejectReady(c1) ELSE c1
             c3 == emit(c2, "close", NoArg)
             handlers == c3.out[Len(c3.out)].handlers
         IN \* a listener that throws ends the function before emitter.clear()
            IF \E i \in 1..Len(handlers) : handlers[i] = "thrower" THEN c3 ELSE clear(c3)

\* JSON.stringify(command): a key whose value is undefined is left out
Serialize(command) ==
    [ type |-> command.type,
      session_id |-> IF command.session_id = Undef THEN Absent ELSE command.session_id,
      to |-> command.to,
      kind |-> command.kind,
      value |-> IF command.value = "undefined" THEN "absent" ELSE command.value ]

sendCommand(c, command, requireSid) ==
    IF c.isClosed THEN [c EXCEPT !.thrown = "signaling channel already closed"]
    ELSE IF command.type = "signal" /\ requireSid /\ command.session_id \in {Undef, <<>>}
    THEN [c EXCEPT !.thrown = "session_id is required for signaling commands"]
    ELSE IF c.readyState = OPEN
    THEN [c EXCEPT !.written = Append(@, Serialize(command))]
    ELSE [c EXCEPT !.pendingFrames = Append(@, Serialize(command))]

\* a faulty requireAgentId, which tests the value before it is trimmed
requireAgentIdOk_Untrimmed(value) == StringOf(value) # <<>>

\* requireAgentId: whether it returns, and what it returns
requireAgentIdOk(value) == Trim(StringOf(value)) # <<>>
requireAgentId(value) == Trim(StringOf(value))

\* a faulty requireSessionId, which returns the value as given
requireSessionId_Untrimmed(value) == StringOf(value)

\* requireSessionId: whether it returns, and what it returns
requireSessionIdOk(value) == Trim(StringOf(value)) # <<>>
requireSessionId(value) == Trim(StringOf(value))

\* assertActive and the require functions throw
ThrowIn(c, msg) == [c EXCEPT !.thrown = msg]

sendQuicOffer(c, targetAgentId, offer) ==
    IF c.isClosed THEN ThrowIn(c, "signaling channel closed")
    ELSE IF ~requireAgentIdOk(targetAgentId)
    THEN ThrowIn(c, "target agent_id is required for signaling")
    ELSE sendCommand(c, [type |-> "signal", session_id |-> Undef,
                         to |-> requireAgentId(targetAgentId),
                         kind |-> "quic_offer", value |-> offer], FALSE)

\* sendQuicAnswer, sendQuicCandidate and disconnectSession differ in the kind only
sendWithSession(c, kind, sessionId, targetAgentId, value) ==
    IF c.isClosed THEN ThrowIn(c, "signaling channel closed")
    ELSE IF ~requireSessionIdOk(sessionId)
    THEN ThrowIn(c, "session_id is required for signaling")
    ELSE IF ~requireAgentIdOk(targetAgentId)
    THEN ThrowIn(c, "target agent_id is required for signaling")
    ELSE sendCommand(c, [type |-> "signal", session_id |-> requireSessionId(sessionId),
                         to |-> requireAgentId(targetAgentId),
                         kind |-> kind, value |-> value], TRUE)

sendQuicAnswer(c, sessionId, targetAgentId, answer) ==
    sendWithSession(c, "quic_answer", sessionId, targetAgentId, answer)

\* SignalingChannel.close
close(c) ==
    IF c.isClosed THEN c
    ELSE [c EXCEPT !.closeRequested = TRUE,
                   !.readyState = IF @ \in {CONNECTING, OPEN} THEN CLOSING ELSE @]

(***************************************************************************)
(* Socket errors: a message is a sequence of words                         *)
(***************************************************************************)
\* an error without a message is the empty sequence
ErrorInputs ==
    { <<>>,                                      \* handleError(undefined)
      <<"boom">>,
      <<"read", "ECONNRESET">>,
      <<"WebSocket", "is", "not", "open">> }

\* String.prototype.toLowerCase, word by word
toLowerCase(msg) ==
    [i \in 1..Len(msg) |-> CASE msg[i] = "ECONNRESET" -> "econnreset"
                            [] msg[i] = "WebSocket" -> "websocket"
                            [] OTHER -> msg[i]]

\* String.prototype.includes on whole words
includes(msg, needle) ==
    \E i \in 1..Len(msg) :
        /\ i + Len(needle) - 1 <= Len(msg)
        /\ SubSeq(msg, i, i + Len(needle) - 1) = needle

isTerminalSocketError(error) ==
    IF error = <<>> THEN FALSE
    ELSE \E needle \in
            { <<"connection", "closed">>, <<"websocket", "is", "not", "open">>,
              <<"already", "closed">>, <<"econnreset">>, <<"epipe">>, <<"ebadf">> } :
             includes(toLowerCase(error), needle)

(***************************************************************************)
(* Inbound frames                                                          *)
(***************************************************************************)
\* text: what JSON.parse makes of the raw string; top: the parsed value;
\* event, payload: the two keys of a parsed object
\* text is "empty", "invalid" or "json"; top is "object", "array", "null",
\* "number" or "string"
\* "unconvertible": an object with a field that String() cannot convert, such as
\* {"session_id": {"toString": 1}}: String() throws a TypeError on it

ClassFrame(text, top, event, shape) ==
    [text |-> text, top |-> top, event |-> event, shape |-> shape, body |-> NoBody]

ChannelFrames ==
    {ClassFrame("empty", "null", "absent", "absent"),
     ClassFrame("invalid", "null", "absent", "absent")}
    \cup {ClassFrame("json", top, "absent", "absent") :
                top \in {"array", "null", "number", "string"}}
    \cup {ClassFrame("json", "object", e, p) :
                e \in {"absent", "emptystr", "ping", "Signaling",
                       "signaling", "session", "control", "heartbeat"},
                p \in {"absent", "null", "false", "zero", "emptystr",
                       "number", "array", "object", "unconvertible"}}

\* String(payload?.session_id ?? "") and its like
normalizeSignalingEvent(frame) ==
    [ sessionId |-> IF frame.body.session_id = Absent THEN <<>> ELSE frame.body.session_id,
      from |-> IF frame.body.from = Absent THEN <<>> ELSE frame.body.from,
      kind |-> IF frame.body.kind = "absent" THEN "reject" ELSE frame.body.kind,
      relay |-> frame.body.relay ]

\* normalizeSocketEvent: "null", "throws", or the event's family
normalizeSocketEvent(frame) ==
    IF frame.top # "object" THEN "null"
    ELSE IF frame.event \in {"absent", "emptystr"} \/ frame.shape \in {"absent", "null", "false", "zero", "emptystr"} THEN "null"
    ELSE IF frame.event \notin TypedEvents THEN "null"
    ELSE IF frame.shape = "unconvertible" THEN "throws"
    ELSE frame.event

handleMessagePayload(c, frame) ==
    IF frame.text = "empty" THEN c
    ELSE IF frame.text = "invalid" THEN c
    ELSE LET normalized == normalizeSocketEvent(frame) IN
         IF normalized = "null" THEN c
         ELSE IF normalized = "throws"
         THEN ThrowIn(c, "TypeError: Cannot convert object to primitive value")
         ELSE emit(emit(c, "raw", normalizeSignalingEvent(frame)),
                   normalized, normalizeSignalingEvent(frame))

(***************************************************************************)
(* attachNodeSocket: the four socket handlers                              *)
(***************************************************************************)
\* a faulty handleOpen, which does not resolve the ready signal
handleOpen_NoResolve(c) == flushQueue(emit(c, "open", NoArg))

\* emit runs the listeners of open before flushQueue is called; the listener
\* "sender" is an application's that sends an offer when the channel opens
handleOpen(c) ==
    LET c1 == emit(resolveReady(c), "open", NoArg)
        handlers == c1.out[Len(c1.out)].handlers
        \* a listener that throws ends the dispatch, and the function before flushQueue()
        threw == \E i \in 1..Len(handlers) : handlers[i] = "thrower"
        c2 == IF \E i \in 1..Len(handlers) :
                     /\ handlers[i] = "sender"
                     /\ \A j \in 1..(i - 1) : handlers[j] # "thrower"
              THEN [sendQuicOffer(c1, <<"a">>, "opened") EXCEPT !.thrown = "none"]
              ELSE c1
    IN IF threw THEN c2 ELSE flushQueue(c2)

\* a faulty handleError, which treats every error as non-terminal
handleError_Surfacing(c, error) ==
    IF c.isClosed THEN c
    ELSE emit(IF ~c.settledReady THEN rejectReady(c) ELSE c, "error", NoArg)

handleError(c, error) ==
    IF c.isClosed \/ isTerminalSocketError(error)
    THEN IF ~c.isClosed /\ c.readyState # OPEN THEN completeClose(c) ELSE c
    ELSE emit(IF ~c.settledReady THEN rejectReady(c) ELSE c, "error", NoArg)

sendQuicCandidate(c, sessionId, targetAgentId, candidate) ==
    sendWithSession(c, "quic_candidate", sessionId, targetAgentId, candidate)

disconnectSession(c, sessionId, targetAgentId, reason) ==
    sendWithSession(c, "disconnect", sessionId, targetAgentId, reason)

(***************************************************************************)
(* quic_session.ts: timers, and waitForSessionEvent                        *)
(***************************************************************************)
\* the ticks of setTimeout(resolve, 100), of the 2000 ms grace of the session
\* id, of Math.max(2000, directTimeoutMs) and of
\* Math.max(10_000, directTimeoutMs * 5)
PollTicks == 1
GraceTicks == 20
RelayFloorTicks == 20
ResponderFloorTicks == 100
ResponderFactor == 5

\* a timer holds the ticks left until it fires; this one is not set
NoTimer == 0 - 1

\* Math.max
Max(a, b) == IF a >= b THEN a ELSE b

\* agent and session ids as they occur on the wire
Peer == <<"p">>
S1 == <<"s">>
S2 == <<"t">>

\* the two waitForSessionEvent promises, and the promise of acceptQuicDirectFirst
WaitIds == {"iniRelay", "rspRelay", "offer"}

NoWaits ==
    [id \in WaitIds |-> [state |-> "idle", timer |-> NoTimer, ev |-> NoArg, reason |-> "none"]]

\* a Direct or Relay result or a rejection; token and transport are those of a
\* Relay result, a transport being known by the relay event it was connected to
NoResult ==
    [ mode |-> "none", sessionId |-> <<>>, peerAgentId |-> <<>>,
      peerReady |-> FALSE, error |-> "none", token |-> <<>>, transport |-> NoArg ]

\* the arguments of a transport.relayBind call, and the transport it is made on

NoIni ==
    [ pc |-> "idle",
      directTimeoutMs |-> 0,       \* in ticks
      peerAgentId |-> <<>>,
      token |-> <<>>,
      server |-> "none",           \* the promise of server.accept()
      acceptPromise |-> "none",    \* withTimeout(server.accept(), directTimeoutMs)
      acceptTimer |-> NoTimer,
      graceTimer |-> NoTimer,      \* the timer of withTimeout(relayEventPromise, 2000)
      sleepTimer |-> NoTimer,
      connections |-> 0,           \* open direct connections the server accepted
      transport |-> "none",        \* relayClient.connectTransport
      relayUsed |-> NoArg,         \* the event whose relay the transport connected to
      peerReady |-> FALSE,
      deadline |-> NoTimer,        \* the ticks left until Date.now() >= deadline
      result |-> NoResult,
      \* what happened so far; the clocks count ticks and stop at a cap
      elapsed |-> NoTimer,         \* since the start, until the relay event came
      sinceAccept |-> NoTimer,     \* since server.accept() resolved, until the relay event came
      relayWhen |-> "none",        \* when the first quic_relay event from the peer came
      relayInTime |-> FALSE,       \* it came less than max(2000, directTimeoutMs) after the start
      relaySid |-> <<>>,
      relayValid |-> FALSE,
      relayClean |-> FALSE,        \* no error or close event came before it
      channelFailed |-> FALSE,     \* the channel emitted error or close since the start
      called |-> FALSE,            \* relayBind was called
      polled |-> FALSE,            \* relayBind was called again by the loop
      bindArgs |-> [token |-> <<>>, sessionId |-> <<>>, transport |-> NoArg],         \* the last relayBind call
      lastBind |-> "none",         \* what the last relayBind call returned
      calledAfterTrue |-> FALSE,   \* relayBind was called after it returned true
      sinceFirstBind |-> NoTimer,  \* since the first relayBind call returned
      sinceBind |-> NoTimer,       \* since the last relayBind call returned
      pollOk |-> TRUE ]            \* each later call came PollTicks after the return before it

NoRsp ==
    [ pc |-> "idle",
      directTimeoutMs |-> 0,
      peerAgentId |-> <<>>,
      token |-> <<>>,
      sessionId |-> <<>>,
      cached |-> FALSE,            \* relayEventPromise is Promise.resolve(relayEvent)
      relayEvent |-> NoArg,
      client |-> "none",           \* the promise of client.connect(offer)
      connectPromise |-> "none",   \* withTimeout(client.connect(offer), directTimeoutMs)
      connectTimer |-> NoTimer,
      sleepTimer |-> NoTimer,
      connections |-> 0,
      transport |-> "none",
      relayUsed |-> NoArg,         \* the event whose relay the transport connected to
      peerReady |-> FALSE,
      deadline |-> NoTimer,
      result |-> NoResult,
      \* what happened so far; the clocks count ticks and stop at a cap
      offerDelay |-> 0,            \* since the initiator of the session sent the offer
      elapsed |-> NoTimer,         \* since the start, until the relay event came
      relayFirst |-> NoArg,        \* the first quic_relay event of the session on the channel
      relayInTime |-> FALSE,       \* it came less than relayTimeoutMs after the start
      relayClean |-> FALSE,        \* no error or close event came before it
      channelFailed |-> FALSE,     \* the channel emitted error or close since the start
      called |-> FALSE,
      polled |-> FALSE,
      bindArgs |-> [token |-> <<>>, sessionId |-> <<>>, transport |-> NoArg],         \* the last relayBind call
      lastBind |-> "none",
      calledAfterTrue |-> FALSE,
      sinceFirstBind |-> NoTimer,
      sinceBind |-> NoTimer,
      pollOk |-> TRUE ]

\* Map.prototype.get and set of relayBySession, a function on the keys set so far
MapGet(map, key) == IF key \in DOMAIN map THEN map[key] ELSE NoArg
MapSet(map, key, value) ==
    [k \in DOMAIN map \cup {key} |-> IF k = key THEN value ELSE map[k]]

NoAcc ==
    [ pc |-> "idle",
      offerTimeoutMs |-> 0,        \* in ticks
      directTimeoutMs |-> 0,
      token |-> <<>>,
      relayBySession |-> <<>>,     \* new Map()
      relayEvent |-> NoArg,        \* the relayEvent the promise resolved with
      error |-> "none",
      \* what happened so far, while the wait was pending
      elapsed |-> NoTimer,         \* since the start, up to offerTimeoutMs
      first |-> "none",            \* the first offer, error or close event of the channel
      firstOffer |-> NoArg,
      lastSeen |-> [sid \in {<<>>, S1, S2} |-> NoArg] ]   \* the last quic_relay event per sessionId

isRelayPayload(ev) == ev.kind = "quic_relay"
isOfferPayload(ev) == ev.kind = "quic_offer"

\* parseRelayInfo returns for an object that has its three fields, and throws
\* for anything else
parseRelayInfoOk(raw) == raw = "valid"

\* withTimeout: the timer it sets, none for timeoutMs <= 0
withTimeout(timeoutMs) == IF timeoutMs <= 0 THEN NoTimer ELSE timeoutMs

\* a variant in which the responder's wait takes the relay event of any session
predicate_AnySession(s, id, ev) ==
    IF id = "iniRelay"
    THEN ev.from = s.ini.peerAgentId /\ isRelayPayload(ev)
    ELSE isRelayPayload(ev)

\* the predicate a wait was started with
predicate(s, id, ev) ==
    IF id = "iniRelay"
    THEN ev.from = s.ini.peerAgentId /\ isRelayPayload(ev)
    ELSE ev.sessionId = s.rsp.sessionId /\ isRelayPayload(ev)

waitForSessionEvent(s, id, timeoutMs) ==
    [s EXCEPT !.ch = on(on(on(@, "signaling", id), "error", id), "close", id),
              !.waits[id] = [ state |-> "pending",
                              timer |-> IF timeoutMs > 0 THEN timeoutMs ELSE NoTimer,
                              ev |-> NoArg, reason |-> "none" ]]

\* a faulty cleanup, which clears the timer and leaves the listeners on
cleanup_KeepListeners(s, id) == [s EXCEPT !.waits[id].timer = NoTimer]

\* cleanup of waitForSessionEvent, and of acceptQuicDirectFirst
cleanup(s, id) ==
    [s EXCEPT !.ch = off(off(off(@, "signaling", id), "error", id), "close", id),
              !.waits[id].timer = NoTimer]

\* resolve and reject of the wait's promise: the first one wins
resolveWait(s, id, ev) ==
    IF s.waits[id].state # "pending" THEN s
    ELSE [s EXCEPT !.waits[id].state = "resolved", !.waits[id].ev = ev]

rejectWait(s, id, reason) ==
    IF s.waits[id].state # "pending" THEN s
    ELSE [s EXCEPT !.waits[id].state = "rejected", !.waits[id].reason = reason]

\* a faulty signaling listener of the dispatcher, which stores no relay event
acceptListener_NoCache(s, arg) ==
    IF ~isOfferPayload(arg) \/ s.waits["offer"].state # "pending" THEN s
    ELSE resolveWait(cleanup(s, "offer"), "offer", arg)

\* the signaling listener of acceptQuicDirectFirst
acceptListener(s, arg) ==
    LET s1 == IF isRelayPayload(arg) /\ arg.sessionId # <<>>
              THEN [s EXCEPT !.acc.relayBySession = MapSet(@, arg.sessionId, arg)]
              ELSE s
    IN IF ~isOfferPayload(arg) \/ s.waits["offer"].state # "pending" THEN s1
       ELSE resolveWait([cleanup(s1, "offer") EXCEPT
                            !.acc.relayEvent = MapGet(s1.acc.relayBySession, arg.sessionId)],
                        "offer", arg)

\* the three listeners of waitForSessionEvent, and those of acceptQuicDirectFirst
waitListener(s, id, event, arg) ==
    CASE event = "signaling" /\ id = "offer" -> acceptListener(s, arg)
      [] event = "signaling" ->
            IF predicate(s, id, arg) THEN resolveWait(cleanup(s, id), id, arg) ELSE s
      [] event = "error" -> rejectWait(cleanup(s, id), id, "channel error")
      [] event = "close" -> rejectWait(cleanup(s, id), id, "Signaling channel closed")
      [] OTHER -> s

\* the timer of waitForSessionEvent
waitTimeout(s, id) ==
    rejectWait(cleanup(s, id), id,
               IF id = "offer" THEN "Timed out waiting for quic_offer"
               ELSE "Timed out waiting for signaling event")

\* A second call of a function on the channel the client keeps registers listeners
\* of its own: they are told from those of the first call by their names
Twin(id) ==
    CASE id = "iniRelay" -> "iniRelay2" [] id = "iniRelay2" -> "iniRelay"
      [] id = "rspRelay" -> "rspRelay2" [] id = "rspRelay2" -> "rspRelay"
      [] id = "offer" -> "offer2"       [] id = "offer2" -> "offer"
      [] OTHER -> id

\* the world as the other of two calls on one channel sees it: its own promises,
\* timers and listeners are where the code of the call looks for them
Swap(s) ==
    [ ch |-> [s.ch EXCEPT
                 !.listeners = [e \in DOMAIN @ |-> [i \in 1..Len(@[e]) |-> Twin(@[e][i])]],
                 !.out = [i \in 1..Len(@) |->
                             [@[i] EXCEPT !.handlers = [j \in 1..Len(@) |-> Twin(@[j])]]]],
      waits |-> s.other.waits, ini |-> s.other.ini, rsp |-> s.other.rsp, acc |-> s.other.acc,
      other |-> [waits |-> s.waits, ini |-> s.ini, rsp |-> s.rsp, acc |-> s.acc] ]

\* SimpleEventEmitter.emit: the listeners that were registered when the event
\* was emitted are invoked in their order
RECURSIVE InvokeAll(_, _, _, _)
InvokeAll(s, handlers, event, arg) ==
    IF handlers = <<>> THEN s
    ELSE InvokeAll(IF Head(handlers) \in {"iniRelay2", "rspRelay2", "offer2"}
                   THEN Swap(waitListener(Swap(s), Twin(Head(handlers)), event, arg))
                   ELSE waitListener(s, Head(handlers), event, arg),
                   Tail(handlers), event, arg)

RECURSIVE Deliver(_, _)
Deliver(s, out) ==
    IF out = <<>> THEN s
    ELSE Deliver(InvokeAll(s, Head(out).handlers, Head(out).event, Head(out).arg),
                 Tail(out))

(***************************************************************************)
(* initiateQuicSessionDirectFirst                                          *)
(***************************************************************************)
\* relayEventPromise: the wait, then parseRelayInfo
relayEventPromise(s) ==
    LET w == s.waits["iniRelay"] IN
    CASE w.state = "resolved" ->
            IF parseRelayInfoOk(w.ev.relay) THEN "resolved" ELSE "rejected"
      [] w.state = "rejected" -> "rejected"
      [] OTHER -> "pending"

IniSettle(n, mode, error, sessionId) ==
    [n EXCEPT !.pc = "done",
              !.result = [ mode |-> mode, sessionId |-> sessionId,
                           peerAgentId |-> n.peerAgentId,
                           peerReady |-> n.peerReady, error |-> error,
                           token |-> IF mode = "relay" THEN n.token ELSE <<>>,
                           transport |-> IF mode = "relay" THEN n.relayUsed ELSE NoArg ]]

\* a variant that starts the relay-info wait before it sends the offer
IniBegin_WaitFirst(s, directTimeoutMs, peerAgentId, token) ==
    LET w == waitForSessionEvent(s, "iniRelay", Max(RelayFloorTicks, directTimeoutMs))
        c1 == sendQuicOffer(w.ch, peerAgentId, "offer")
        n0 == [NoIni EXCEPT !.directTimeoutMs = directTimeoutMs,
                            !.peerAgentId = peerAgentId,
                            !.token = token]
    IN IF c1.thrown # "none"
       THEN [w EXCEPT !.ch = c1, !.ini = IniSettle(n0, "rejected", c1.thrown, <<>>)]
       ELSE [w EXCEPT !.ch = c1,
                      !.ini = [n0 EXCEPT !.pc = "awaitAccept",
                                         !.server = "pending",
                                         !.acceptPromise = "pending",
                                         !.acceptTimer = withTimeout(directTimeoutMs),
                                         !.elapsed = 0]]

\* the function up to its first await
IniBegin(s, directTimeoutMs, peerAgentId, token) ==
    LET c1 == sendQuicOffer(s.ch, peerAgentId, "offer")
        n0 == [NoIni EXCEPT !.directTimeoutMs = directTimeoutMs,
                            !.peerAgentId = peerAgentId,
                            !.token = token]
    IN IF c1.thrown # "none"
       THEN [s EXCEPT !.ch = c1, !.ini = IniSettle(n0, "rejected", c1.thrown, <<>>)]
       ELSE waitForSessionEvent(
                [s EXCEPT !.ch = c1,
                          !.ini = [n0 EXCEPT !.pc = "awaitAccept",
                                             !.server = "pending",
                                             !.acceptPromise = "pending",
                                             !.acceptTimer = withTimeout(directTimeoutMs),
                                             !.elapsed = 0]],
                "iniRelay", Max(RelayFloorTicks, directTimeoutMs))

\* a faulty grace, which is over at once
GraceTimer_None(n) == 0

\* the timer of withTimeout(relayEventPromise, 2000, "session id")
GraceTimer(n) == withTimeout(GraceTicks)

\* a faulty loop condition, which does not look at peerReady
IniPollAgain_Blind(n) == n.deadline > 0

\* while (!peerReady && Date.now() < deadline)
IniPollAgain(n) == ~n.peerReady /\ n.deadline > 0

\* the function from an await whose promise has settled to its next await
RECURSIVE IniRun(_)
IniRun(s) ==
    LET n == s.ini
        rp == relayEventPromise(s)
    IN CASE n.pc = "awaitAccept" /\ n.acceptPromise = "resolved" ->
               IniRun([s EXCEPT !.ini.pc = "awaitGrace",
                                !.ini.graceTimer = GraceTimer(n)])
         [] n.pc = "awaitAccept" /\ n.acceptPromise = "rejected" ->
               IniRun([s EXCEPT !.ini.pc = "awaitRelay"])
         [] n.pc = "awaitGrace" /\ rp = "resolved" ->
               [s EXCEPT !.ini = IniSettle([n EXCEPT !.graceTimer = NoTimer], "direct",
                                           "none", s.waits["iniRelay"].ev.sessionId)]
         [] n.pc = "awaitGrace" /\ rp = "rejected" ->
               IniRun([s EXCEPT !.ini.pc = "awaitRelay", !.ini.graceTimer = NoTimer])
         [] n.pc = "awaitRelay" /\ rp = "resolved" ->
               [s EXCEPT !.ini.pc = "connectTransport", !.ini.transport = "connecting",
                         !.ini.relayUsed = s.waits["iniRelay"].ev]
         [] n.pc = "awaitRelay" /\ rp = "rejected" ->
               [s EXCEPT !.ini = IniSettle(n, "rejected",
                                           IF s.waits["iniRelay"].state = "resolved"
                                           THEN "Invalid quic_relay payload"
                                           ELSE s.waits["iniRelay"].reason, <<>>)]
         [] OTHER -> s

\* server.accept() settles
IniServerSettles(s, ok) ==
    LET inTime == s.ini.acceptPromise = "pending"
        how == IF ok THEN "resolved" ELSE "rejected"
    IN [s EXCEPT !.ini.server = how,
                 !.ini.connections = IF ok THEN @ + 1 ELSE @,
                 !.ini.acceptPromise = IF inTime THEN how ELSE @,
                 !.ini.acceptTimer = NoTimer,
                 !.ini.sinceAccept = IF ok /\ inTime /\ s.ini.relayWhen = "none"
                                     THEN 0 ELSE @]

\* transport.relayBind(options.token, relayEvent.sessionId) is called
IniCallBind(s, next) ==
    [s EXCEPT !.ini.pc = next,
              !.ini.sleepTimer = NoTimer,
              !.ini.called = TRUE,
              !.ini.polled = @ \/ next = "relayBindLoop",
              !.ini.bindArgs = [ token |-> s.ini.token,
                                 sessionId |-> s.waits["iniRelay"].ev.sessionId,
                                 transport |-> s.ini.relayUsed ],
              !.ini.calledAfterTrue = @ \/ s.ini.lastBind = "true",
              !.ini.pollOk = @ /\ s.ini.sinceBind \in {NoTimer, PollTicks}]

\* a faulty continuation, which goes on to relayBind on a transport that failed
IniTransportSettles_Lenient(s, ok) ==
    IniCallBind([s EXCEPT !.ini.transport = IF ok THEN "connected" ELSE "failed"],
                "relayBind")

\* relayClient.connectTransport(relayEvent.relay) settles
IniTransportSettles(s, ok) ==
    IF ok
    THEN IniCallBind([s EXCEPT !.ini.transport = "connected"], "relayBind")
    ELSE [s EXCEPT !.ini = IniSettle([s.ini EXCEPT !.transport = "failed"], "rejected",
                                     "connectTransport failed", <<>>)]

\* a relayBind call returns: the first one sets the deadline, and the loop
\* sleeps or ends
IniBindReturns(s, peerReady) ==
    LET n0 == [s.ini EXCEPT !.peerReady = peerReady,
                            !.lastBind = IF peerReady THEN "true" ELSE "false",
                            !.sinceBind = 0,
                            !.sinceFirstBind = IF @ = NoTimer THEN 0 ELSE @]
        n1 == IF s.ini.pc = "relayBind" /\ ~peerReady
              THEN [n0 EXCEPT !.deadline = Max(RelayFloorTicks, n0.directTimeoutMs)]
              ELSE n0
    IN IF IniPollAgain(n1)
       THEN [s EXCEPT !.ini = [n1 EXCEPT !.pc = "sleep", !.sleepTimer = PollTicks]]
       ELSE [s EXCEPT !.ini = IniSettle(n1, "relay", "none",
                                        s.waits["iniRelay"].ev.sessionId)]

(***************************************************************************)
(* respondQuicOfferDirectFirst                                             *)
(***************************************************************************)
RspSettle(r, mode, error) ==
    [r EXCEPT !.pc = "done",
              !.result = [ mode |-> mode, sessionId |-> r.sessionId,
                           peerAgentId |-> r.peerAgentId,
                           peerReady |-> r.peerReady, error |-> error,
                           token |-> IF mode = "relay" THEN r.token ELSE <<>>,
                           transport |-> IF mode = "relay" THEN r.relayUsed ELSE NoArg ]]

\* Math.max(10_000, directTimeoutMs * 5), in ticks
relayTimeoutMs(directTimeoutMs) ==
    Max(ResponderFloorTicks, directTimeoutMs * ResponderFactor)

\* the function up to its first await
RspBegin(s, directTimeoutMs, token, offerEvent, relayEvent) ==
    LET r0 == [NoRsp EXCEPT !.directTimeoutMs = directTimeoutMs,
                            !.token = token,
                            !.peerAgentId = offerEvent.from,
                            !.sessionId = offerEvent.sessionId]
        cached == /\ relayEvent # NoArg        \* relayEvent is not undefined
                  /\ isRelayPayload(relayEvent)
                  /\ relayEvent.sessionId = offerEvent.sessionId
        r1 == [r0 EXCEPT !.pc = "awaitConnect",
                         !.cached = cached,
                         !.relayEvent = IF cached THEN relayEvent ELSE NoArg,
                         !.client = "pending",
                         !.connectPromise = "pending",
                         !.connectTimer = withTimeout(directTimeoutMs),
                         !.elapsed = IF cached THEN NoTimer ELSE 0]
    IN IF ~isOfferPayload(offerEvent)
       THEN [s EXCEPT !.rsp = RspSettle(r0, "rejected",
                                        "offerEvent must have quic_offer payload")]
       ELSE IF cached THEN [s EXCEPT !.rsp = r1]
       ELSE waitForSessionEvent([s EXCEPT !.rsp = r1], "rspRelay",
                                relayTimeoutMs(directTimeoutMs))

\* the responder's relayEventPromise
rspRelayPromise(s) ==
    IF s.rsp.cached THEN "resolved" ELSE
    CASE s.waits["rspRelay"].state = "resolved" -> "resolved"
      [] s.waits["rspRelay"].state = "rejected" -> "rejected"
      [] OTHER -> "pending"

\* a faulty choice of the relay event, which ignores the cached one
effectiveRelayEvent_Waited(s) == s.waits["rspRelay"].ev

effectiveRelayEvent(s) ==
    IF s.rsp.cached THEN s.rsp.relayEvent ELSE s.waits["rspRelay"].ev

\* a faulty direct branch, which answers with the relay mode
RspDirectAnswer_Relay(c, sessionId, peerAgentId) ==
    sendQuicAnswer(c, sessionId, peerAgentId, "relay")

\* channel.sendQuicAnswer(sessionId, peerAgentId, { accepted: true, mode: "direct" })
RspDirectAnswer(c, sessionId, peerAgentId) ==
    sendQuicAnswer(c, sessionId, peerAgentId, "direct")

\* channel.sendQuicAnswer(sessionId, peerAgentId, { accepted: true, mode: "relay" })
RspRelayAnswer(c, sessionId, peerAgentId) ==
    sendQuicAnswer(c, sessionId, peerAgentId, "relay")

\* while (!peerReady && Date.now() < deadline)
RspPollAgain(r) == ~r.peerReady /\ r.deadline > 0

\* the function from an await whose promise has settled to its next await
RECURSIVE RspRun(_)
RspRun(s) ==
    LET r == s.rsp
        rp == rspRelayPromise(s)
    IN CASE r.pc = "awaitConnect" /\ r.connectPromise = "resolved" ->
               LET c1 == RspDirectAnswer(s.ch, r.sessionId, r.peerAgentId) IN
               IF c1.thrown = "none"
               THEN [s EXCEPT !.ch = c1, !.rsp = RspSettle(r, "direct", "none")]
               ELSE RspRun([s EXCEPT !.ch = [c1 EXCEPT !.thrown = "none"],
                                     !.rsp.pc = "awaitRelay"])
         [] r.pc = "awaitConnect" /\ r.connectPromise = "rejected" ->
               RspRun([s EXCEPT !.rsp.pc = "awaitRelay"])
         [] r.pc = "awaitRelay" /\ rp = "resolved" ->
               IF parseRelayInfoOk(effectiveRelayEvent(s).relay)
               THEN [s EXCEPT !.rsp.pc = "connectTransport",
                              !.rsp.transport = "connecting",
                              !.rsp.relayUsed = effectiveRelayEvent(s)]
               ELSE [s EXCEPT !.rsp = RspSettle(r, "rejected", "Invalid quic_relay payload")]
         [] r.pc = "awaitRelay" /\ rp = "rejected" ->
               [s EXCEPT !.rsp = RspSettle(r, "rejected", s.waits["rspRelay"].reason)]
         [] OTHER -> s

\* client.connect(offer) settles
RspClientSettles(s, ok) ==
    LET inTime == s.rsp.connectPromise = "pending"
        how == IF ok THEN "resolved" ELSE "rejected"
    IN [s EXCEPT !.rsp.client = how,
                 !.rsp.connections = IF ok THEN @ + 1 ELSE @,
                 !.rsp.connectPromise = IF inTime THEN how ELSE @,
                 !.rsp.connectTimer = NoTimer]

\* a faulty call, which binds the session of the cached relay event
RspCallBind_Cached(r, next) ==
    [r EXCEPT !.pc = next,
              !.sleepTimer = NoTimer,
              !.called = TRUE,
              !.polled = @ \/ next = "relayBindLoop",
              !.bindArgs = [ token |-> r.token, sessionId |-> r.relayEvent.sessionId,
                             transport |-> r.relayUsed ],
              !.calledAfterTrue = @ \/ r.lastBind = "true",
              !.pollOk = @ /\ r.sinceBind \in {NoTimer, PollTicks}]

\* transport.relayBind(options.token, sessionId) is called
RspCallBind(r, next) ==
    [r EXCEPT !.pc = next,
              !.sleepTimer = NoTimer,
              !.called = TRUE,
              !.polled = @ \/ next = "relayBindLoop",
              !.bindArgs = [ token |-> r.token, sessionId |-> r.sessionId,
                             transport |-> r.relayUsed ],
              !.calledAfterTrue = @ \/ r.lastBind = "true",
              !.pollOk = @ /\ r.sinceBind \in {NoTimer, PollTicks}]

\* relayClient.connectTransport(relay) settles
RspTransportSettles(s, ok) ==
    IF ok
    THEN [s EXCEPT !.rsp = RspCallBind([s.rsp EXCEPT !.transport = "connected"], "relayBind")]
    ELSE [s EXCEPT !.rsp = RspSettle([s.rsp EXCEPT !.transport = "failed"], "rejected",
                                     "connectTransport failed")]

\* a relayBind call returns; after the loop the answer is sent
RspBindReturns(s, peerReady) ==
    LET r0 == [s.rsp EXCEPT !.peerReady = peerReady,
                            !.lastBind = IF peerReady THEN "true" ELSE "false",
                            !.sinceBind = 0,
                            !.sinceFirstBind = IF @ = NoTimer THEN 0 ELSE @]
        r1 == IF s.rsp.pc = "relayBind" /\ ~peerReady
              THEN [r0 EXCEPT !.deadline = Max(RelayFloorTicks, r0.directTimeoutMs)]
              ELSE r0
        c1 == RspRelayAnswer(s.ch, r1.sessionId, r1.peerAgentId)
    IN IF RspPollAgain(r1)
       THEN [s EXCEPT !.rsp = [r1 EXCEPT !.pc = "sleep", !.sleepTimer = PollTicks]]
       ELSE IF c1.thrown # "none"
       THEN [s EXCEPT !.ch = c1, !.rsp = RspSettle(r1, "rejected", c1.thrown)]
       ELSE [s EXCEPT !.ch = c1, !.rsp = RspSettle(r1, "relay", "none")]

(***************************************************************************)
(* acceptQuicDirectFirst                                                   *)
(***************************************************************************)
\* the function from the channel it has to its await of the offer
AccBegin(s, offerTimeoutMs, directTimeoutMs, token) ==
    waitForSessionEvent([s EXCEPT !.acc = [NoAcc EXCEPT !.pc = "waiting",
                                                        !.offerTimeoutMs = offerTimeoutMs,
                                                        !.directTimeoutMs = directTimeoutMs,
                                                        !.token = token,
                                                        !.elapsed = 0]],
                        "offer", offerTimeoutMs)

\* the function from the await of the offer on: respondQuicOfferDirectFirst is
\* called with the offer and the cached relay event, or the call rejects
AccRun(s) ==
    LET w == s.waits["offer"] IN
    CASE s.acc.pc = "waiting" /\ w.state = "resolved" ->
             RspBegin([s EXCEPT !.acc.pc = "responding"], s.acc.directTimeoutMs,
                      s.acc.token, w.ev, s.acc.relayEvent)
      [] s.acc.pc = "waiting" /\ w.state = "rejected" ->
             [s EXCEPT !.acc.pc = "rejected", !.acc.error = w.reason]
      [] OTHER -> s

\* 100 ms pass: the timers run down and the clocks run up
Down(timer) == IF timer > 0 THEN timer - 1 ELSE timer
Up(clock, cap) == IF clock # NoTimer /\ clock < cap THEN clock + 1 ELSE clock

Pass(s) ==
    [s EXCEPT !.waits = [id \in WaitIds |-> [@[id] EXCEPT !.timer = Down(@)]],
              !.ini.acceptTimer = Down(@),
              !.ini.graceTimer = Down(@),
              !.ini.sleepTimer = Down(@),
              !.ini.deadline = Down(@),
              !.ini.elapsed = Up(@, Max(RelayFloorTicks, s.ini.directTimeoutMs)),
              !.ini.sinceAccept = Up(@, GraceTicks),
              !.ini.sinceFirstBind = Up(@, Max(RelayFloorTicks, s.ini.directTimeoutMs)),
              !.ini.sinceBind = Up(@, PollTicks + 1),
              !.rsp.connectTimer = Down(@),
              !.rsp.sleepTimer = Down(@),
              !.rsp.deadline = Down(@),
              !.rsp.offerDelay = IF hist.session /\ s.rsp.pc = "idle" /\ s.ini.pc # "idle"
                                 THEN Up(@, MaxOfferDelay + 1) ELSE @,
              !.rsp.elapsed = Up(@, relayTimeoutMs(s.rsp.directTimeoutMs)),
              !.rsp.sinceFirstBind = Up(@, Max(RelayFloorTicks, s.rsp.directTimeoutMs)),
              !.rsp.sinceBind = Up(@, PollTicks + 1),
              !.acc.elapsed = IF s.waits["offer"].state = "pending"
                              THEN Up(@, s.acc.offerTimeoutMs) ELSE @]

(***************************************************************************)
(* The channel on its own: a socket that connects, opens, fails and        *)
(* closes, and an application that sends and closes                        *)
(***************************************************************************)
NoCall ==
    [ op |-> "none", sessionId |-> Undef, targetAgentId |-> Undef,
      thrown |-> "none", wrote |-> FALSE, queued |-> FALSE, unchanged |-> TRUE,
      afterClose |-> FALSE, requestedClose |-> FALSE ]

NoInbound ==
    [ frame |-> ClassFrame("empty", "null", "absent", "absent"),
      delivered |-> FALSE, dispatched |-> <<>>, thrown |-> "none", unchanged |-> TRUE ]

NoHist ==
    [ closeCalls |-> 0,           \* calls of channel.close()
      errors |-> 0,               \* error events of the socket
      opened |-> FALSE,           \* the socket has opened
      openHandled |-> FALSE,      \* handleOpen has run
      failedBeforeOpen |-> FALSE, \* handleError or handleClose ran before handleOpen
      queuedBeforeOpen |-> <<>>,  \* the frames of the sends accepted before the socket opened
      directWrites |-> 0,         \* sends written straight to the open socket
      session |-> FALSE ]         \* an initiator and a responder, each on its own channel

ChannelInit ==
    /\ ch = NewChannel(CONNECTING, "pending")
    /\ rch = NewChannel(CONNECTING, "pending")
    /\ api = NoCall
    /\ inbound = NoInbound
    /\ hist = NoHist
    /\ waits = NoWaits
    /\ ini = NoIni
    /\ rsp = NoRsp
    /\ acc = NoAcc
    /\ unit = [kind |-> "none"]

\* JavaScript runs one handler or call at a time: nothing else happens
\* before the running one has returned
Idle == api = NoCall /\ inbound = NoInbound

\* the call or the handler returns
Return ==
    /\ ~Idle
    /\ api' = NoCall
    /\ inbound' = NoInbound
    /\ UNCHANGED <<ch, hist, negotiation>>

\* the socket emits open
SocketOpen ==
    /\ Idle
    /\ ch.readyState = CONNECTING
    /\ ~ch.closeFired
    /\ LET c0 == [ch EXCEPT !.readyState = OPEN]
           c1 == IF ch.attached THEN handleOpen(c0) ELSE c0
       IN ch' = Rest(c1)
    /\ hist' = [hist EXCEPT !.opened = TRUE, !.openHandled = ch.attached]
    /\ UNCHANGED negotiation
    /\ api' = NoCall
    /\ inbound' = NoInbound

\* the socket emits error; as ws and browsers do, it may have left the
\* connecting or open state when it does
SocketError(error, rs) ==
    /\ Idle
    /\ ~ch.closeFired
    /\ hist.errors < MaxErrors
    /\ rs = ch.readyState \/ (rs \in {CLOSING, CLOSED} /\ rs > ch.readyState)
    /\ LET c0 == [ch EXCEPT !.readyState = rs]
           c1 == IF ch.attached THEN handleError(c0, error) ELSE c0
       IN ch' = Rest(c1)
    /\ hist' = [hist EXCEPT !.errors = @ + 1,
                            !.failedBeforeOpen = @ \/ (ch.attached /\ ~hist.openHandled)]
    /\ UNCHANGED negotiation
    /\ api' = NoCall
    /\ inbound' = NoInbound

\* the socket emits close, once
SocketClose ==
    /\ Idle
    /\ ~ch.closeFired
    /\ LET c0 == [ch EXCEPT !.readyState = CLOSED, !.closeFired = TRUE]
           c1 == IF ch.attached THEN completeClose(c0) ELSE c0
       IN ch' = Rest(c1)
    /\ hist' = [hist EXCEPT !.failedBeforeOpen = @ \/ (ch.attached /\ ~hist.openHandled)]
    /\ UNCHANGED negotiation
    /\ api' = NoCall
    /\ inbound' = NoInbound

\* the socket emits message
SocketMessage(frame) ==
    /\ Idle
    /\ ch.readyState \in {OPEN, CLOSING}
    /\ ~ch.closeFired
    /\ LET c1 == IF ch.attached THEN handleMessagePayload(ch, frame) ELSE ch
       IN /\ ch' = Rest(c1)
          /\ inbound' = [ frame |-> frame, delivered |-> ch.attached,
                          dispatched |-> [i \in 1..Len(c1.out) |-> c1.out[i].event], thrown |-> c1.thrown,
                          unchanged |-> Rest(c1) = ch ]
    /\ api' = NoCall
    /\ UNCHANGED <<hist, negotiation>>

\* the application calls channel.close()
Close ==
    /\ Idle
    /\ hist.closeCalls < MaxCloseCalls
    /\ LET c1 == close(ch)
       IN /\ ch' = Rest(c1)
          /\ api' = [ op |-> "close", sessionId |-> Undef,
                      targetAgentId |-> Undef, thrown |-> c1.thrown,
                      wrote |-> FALSE, queued |-> FALSE, unchanged |-> Rest(c1) = ch,
                      afterClose |-> hist.closeCalls > 0 \/ ch.isClosed,
                      requestedClose |-> ~ch.isClosed ]
    /\ hist' = [hist EXCEPT !.closeCalls = @ + 1]
    /\ inbound' = NoInbound
    /\ UNCHANGED negotiation

\* the application calls one of the four send operations
Send(op, sessionId, targetAgentId, value) ==
    LET c1 == CASE op = "sendQuicOffer" -> sendQuicOffer(ch, targetAgentId, value)
                [] op = "sendQuicAnswer" -> sendQuicAnswer(ch, sessionId, targetAgentId, value)
                [] op = "sendQuicCandidate" ->
                       sendQuicCandidate(ch, sessionId, targetAgentId, value)
                [] OTHER -> disconnectSession(ch, sessionId, targetAgentId, value)
        wrote == c1.written # ch.written
        queued == c1.pendingFrames # ch.pendingFrames
    IN /\ Idle
       /\ (wrote \/ queued) => Len(ch.written) + Len(ch.pendingFrames) < MaxSends
       /\ ch' = Rest(c1)
       /\ api' = [ op |-> op, sessionId |-> sessionId,
                   targetAgentId |-> targetAgentId, thrown |-> c1.thrown,
                   wrote |-> wrote, queued |-> queued, unchanged |-> Rest(c1) = ch,
                   afterClose |-> hist.closeCalls > 0 \/ ch.isClosed,
                   requestedClose |-> FALSE ]
       /\ hist' = [hist EXCEPT
                     !.queuedBeforeOpen = IF queued /\ ~hist.opened
                                          THEN Append(@, c1.pendingFrames[Len(c1.pendingFrames)])
                                          ELSE @,
                     !.directWrites = IF wrote THEN @ + 1 ELSE @]
       /\ inbound' = NoInbound
       /\ UNCHANGED negotiation

\* the channel and the frames it receives
InboundNext ==
    \/ Return
    \/ SocketOpen
    \/ \E error \in ErrorInputs, rs \in {CONNECTING, OPEN, CLOSING, CLOSED} :
           SocketError(error, rs)
    \/ SocketClose
    \/ Close
    \/ \E frame \in ChannelFrames : SocketMessage(frame)

InboundSpec == ChannelInit /\ [][InboundNext]_vars

\* a socket emits close after close() was called on it and after it failed,
\* and a handler that runs returns
FairInboundSpec == InboundSpec /\ SF_vars(SocketClose) /\ WF_vars(Return)

\* the channel and the commands it sends
ChannelNext ==
    \/ Return
    \/ SocketOpen
    \/ \E error \in ErrorInputs, rs \in {CONNECTING, OPEN, CLOSING, CLOSED} :
           SocketError(error, rs)
    \/ SocketClose
    \/ Close
    \/ \E targetAgentId \in AgentIdInputs, offer \in {"v"} :
           Send("sendQuicOffer", Undef, targetAgentId, offer)
    \/ \E op \in {"sendQuicAnswer", "sendQuicCandidate"}, sessionId \in SessionIdInputs,
          targetAgentId \in AgentIdInputs, value \in {"v"} :
           Send(op, sessionId, targetAgentId, value)
    \/ \E sessionId \in SessionIdInputs, targetAgentId \in AgentIdInputs,
          reason \in {"undefined", "bye"} :
           Send("disconnectSession", sessionId, targetAgentId, reason)

ChannelSpec == ChannelInit /\ [][ChannelNext]_vars

\* the channel with the commands it sends and the frames it receives
TrafficSpec ==
    /\ ChannelInit
    /\ [][\/ ChannelNext
          \/ \E frame \in { ClassFrame("invalid", "null", "absent", "absent"),
                             ClassFrame("json", "object", "signaling", "object"),
                             ClassFrame("json", "object", "session", "object") } :
                 SocketMessage(frame)]_vars

\* the same, on a channel whose application sends from a listener of open:
\* channel.on("open", () => channel.sendQuicOffer(...))
OpenListenerInit ==
    /\ ch = on(NewChannel(CONNECTING, "pending"), "open", "sender")
    /\ rch = NewChannel(CONNECTING, "pending")
    /\ api = NoCall
    /\ inbound = NoInbound
    /\ hist = NoHist
    /\ waits = NoWaits
    /\ ini = NoIni
    /\ rsp = NoRsp
    /\ acc = NoAcc
    /\ unit = [kind |-> "none"]

OpenListenerSpec == OpenListenerInit /\ [][ChannelNext]_vars

\* the same, with the application adding and removing listeners of open and close, one
\* of which throws: channel.on("close", () => { throw new Error("x") })
ThrowingListenerSpec ==
    /\ OpenListenerInit
    /\ [][\/ Return
          \/ SocketOpen
          \/ SocketError(<<"boom">>, CONNECTING)
          \/ SocketClose
          \/ Close
          \/ Send("sendQuicOffer", Undef, <<"a">>, "v")
          \/ \E pair \in { <<"open", "sender">>, <<"open", "thrower">>,
                            <<"close", "thrower">> }, subscribe \in BOOLEAN :
                 /\ Idle
                 /\ ch' = IF subscribe THEN on(ch, pair[1], pair[2])
                          ELSE off(ch, pair[1], pair[2])
                 /\ UNCHANGED <<rch, api, inbound, hist, waits, ini, rsp, acc, unit>>]_vars

(***************************************************************************)
(* The negotiations: a channel that is open, the peer, the relay and the   *)
(* clock                                                                   *)
(***************************************************************************)
NegotiationInit ==
    /\ ch = [NewChannel(OPEN, "resolved") EXCEPT !.emitted["open"] = 1]
    /\ rch = ch
    /\ api = NoCall
    /\ inbound = NoInbound
    /\ hist = NoHist
    /\ waits = NoWaits
    /\ ini = NoIni
    /\ rsp = NoRsp
    /\ acc = NoAcc
    /\ unit = [kind |-> "none"]

World == [ch |-> ch, waits |-> waits, ini |-> ini, rsp |-> rsp, acc |-> acc]

\* the promise continuations run before the next timer or event is handled
Settle(s) == RspRun(AccRun(IniRun(s)))

\* the world as a side sees it: in a session the responder has its own channel
WorldOf(who) == [World EXCEPT !.ch = IF hist.session /\ who = "rsp" THEN rch ELSE ch]

\* a step of one side, on its channel, and the continuations it sets off
ApplyOn(who, s) ==
    IF hist.session
    THEN LET a == IniRun([s EXCEPT !.ch = IF who = "rsp" THEN ch ELSE s.ch])
             b == RspRun([a EXCEPT !.ch = IF who = "rsp" THEN s.ch ELSE rch])
         IN /\ ch' = Rest(a.ch)
            /\ rch' = Rest(b.ch)
            /\ waits' = b.waits
            /\ ini' = b.ini
            /\ rsp' = b.rsp
            /\ acc' = b.acc
            /\ UNCHANGED <<api, inbound, hist, unit>>
    ELSE LET t == Settle(s)
         IN /\ ch' = Rest(t.ch)
            /\ waits' = t.waits
            /\ ini' = t.ini
            /\ rsp' = t.rsp
            /\ acc' = t.acc
            /\ UNCHANGED <<api, inbound, hist, rch, unit>>

Apply(s) == ApplyOn("ini", s)

\* what the channel emitted since the initiator started
ObserveIni(s, e) ==
    IF s.ini.pc = "idle" THEN s
    ELSE CASE e.event \in {"error", "close"} ->
                  [s EXCEPT !.ini.channelFailed = TRUE]
           [] /\ e.event = "signaling"
              /\ e.arg.from = s.ini.peerAgentId
              /\ isRelayPayload(e.arg)
              /\ s.ini.acceptPromise # "none"
              /\ s.ini.relayWhen = "none" ->
                  [s EXCEPT !.ini.relayWhen =
                                CASE s.ini.acceptPromise = "pending" -> "beforeAccept"
                                  [] s.ini.acceptPromise = "rejected" -> "afterFailure"
                                  [] s.ini.sinceAccept \in 0..(GraceTicks - 1) ->
                                         "inGrace"
                                  [] OTHER -> "afterGrace",
                            !.ini.relayInTime =
                                s.ini.elapsed < Max(RelayFloorTicks,
                                                    s.ini.directTimeoutMs),
                            !.ini.elapsed = NoTimer,
                            !.ini.sinceAccept = NoTimer,
                            !.ini.relaySid = e.arg.sessionId,
                            !.ini.relayValid = parseRelayInfoOk(e.arg.relay),
                            !.ini.relayClean = ~s.ini.channelFailed]
           [] OTHER -> s

\* what the channel emitted since the responder started
ObserveRsp(s, e) ==
    IF s.rsp.pc = "idle" THEN s
    ELSE CASE e.event \in {"error", "close"} ->
                  [s EXCEPT !.rsp.channelFailed = TRUE]
           [] /\ e.event = "signaling"
              /\ e.arg.sessionId = s.rsp.sessionId
              /\ isRelayPayload(e.arg)
              /\ ~s.rsp.cached
              /\ s.rsp.relayFirst = NoArg ->
                  [s EXCEPT !.rsp.relayFirst = e.arg,
                            !.rsp.relayInTime =
                                s.rsp.elapsed # NoTimer
                                /\ s.rsp.elapsed < relayTimeoutMs(s.rsp.directTimeoutMs),
                            !.rsp.elapsed = NoTimer,
                            !.rsp.relayClean = ~s.rsp.channelFailed]
           [] OTHER -> s

\* what the channel emitted while the accept dispatcher was waiting
ObserveAcc(s, e) ==
    IF s.waits["offer"].state # "pending" \/ s.acc.first # "none" THEN s
    ELSE CASE e.event \in {"error", "close"} -> [s EXCEPT !.acc.first = e.event]
           [] e.event = "signaling" /\ isOfferPayload(e.arg) ->
                  [s EXCEPT !.acc.first = "offer", !.acc.firstOffer = e.arg]
           [] e.event = "signaling" /\ isRelayPayload(e.arg) ->
                  [s EXCEPT !.acc.lastSeen[e.arg.sessionId] = e.arg]
           [] OTHER -> s

\* who is "ini" or "rsp" for a channel of a session, and "both" for the one
\* channel that the calls are run on otherwise
RECURSIVE Observe(_, _, _)
Observe(who, s, out) ==
    IF out = <<>> THEN s
    ELSE LET s1 == IF who = "rsp" THEN s ELSE ObserveIni(s, Head(out))
             s2 == IF who = "ini" THEN s1 ELSE ObserveRsp(ObserveAcc(s1, Head(out)), Head(out))
         IN Observe(who, s2, Tail(out))

\* a handler of the channel has run: its events reach the listeners
ChannelEvent(c1) ==
    Apply(Deliver([Observe("both", World, c1.out) EXCEPT !.ch = c1], c1.out))

SignalingFrame(sessionId, from, kind, relay) ==
    [ text |-> "json", top |-> "object", event |-> "signaling", shape |-> "object",
      body |-> [session_id |-> sessionId, from |-> from, kind |-> kind, relay |-> relay] ]

NegSocketMessage(frame) ==
    /\ ch.readyState \in {OPEN, CLOSING}
    /\ ~ch.closeFired
    /\ ch.attached
    /\ ChannelEvent(handleMessagePayload(ch, frame))

NegSocketError(error) ==
    /\ ~ch.closeFired
    /\ ch.attached
    /\ ch.emitted["error"] < MaxErrors
    /\ ChannelEvent(handleError(ch, error))

NegSocketClose ==
    /\ ~ch.closeFired
    /\ LET c0 == [ch EXCEPT !.readyState = CLOSED, !.closeFired = TRUE]
       IN ChannelEvent(IF ch.attached THEN completeClose(c0) ELSE c0)

Due(timer) == timer = 0

\* 100 ms pass while a call is under way; a timer fires in the tick it is set for
Tick ==
    /\ \/ ini.pc \notin {"idle", "done"}
       \/ rsp.pc \notin {"idle", "done"}
       \/ acc.pc = "waiting"
    /\ \A timer \in ( {ini.acceptTimer, ini.graceTimer, ini.sleepTimer,
                        rsp.connectTimer, rsp.sleepTimer}
                       \cup {waits[id].timer : id \in WaitIds} ) \ {NoTimer} : timer > 0
    /\ Apply(Pass(World))

WaitTimeout(id) ==
    LET who == IF id = "rspRelay" THEN "rsp" ELSE "ini"
    IN Due(waits[id].timer) /\ ApplyOn(who, waitTimeout(WorldOf(who), id))

NegotiationEnvironment ==
    \/ \E frame \in
            { SignalingFrame(S1, Peer, "quic_relay", "valid"),
              SignalingFrame(S1, Peer, "quic_relay", "incomplete"),
              SignalingFrame(S2, Peer, "quic_relay", "valid"),
              SignalingFrame(S1, <<"o">>, "quic_relay", "valid"),
              SignalingFrame(S1, Peer, "quic_answer", "absent") } :
           NegSocketMessage(frame)
    \/ \E error \in {<<"boom">>, <<"read", "ECONNRESET">>} : NegSocketError(error)
    \/ NegSocketClose
    \/ ChannelEvent(close(ch))
    \/ \E id \in WaitIds : WaitTimeout(id)
    \/ Tick

\* options.directTimeoutMs, in ticks, is none, below the floor or above it
IniStart ==
    /\ ini.pc = "idle"
    /\ \E directTimeoutMs \in {0, 5, 22}, token \in {<<"k">>} :
           Apply(IniBegin(World, directTimeoutMs, Peer, token))

\* dialQuicDirectFirst: issueSignalingToken rejects, and nothing else is done
IniTokenRefused ==
    /\ ini.pc = "idle"
    /\ Apply([World EXCEPT !.ini = IniSettle(NoIni, "rejected",
                                             "issueSignalingToken failed", <<>>)])

IniAccept(ok) == ini.server = "pending" /\ Apply(IniServerSettles(World, ok))

\* a faulty accept timeout, which also gives up the wait for the relay event
IniAcceptTimeout_Cancelling ==
    /\ Due(ini.acceptTimer)
    /\ Apply(waitTimeout([World EXCEPT !.ini.acceptPromise = "rejected",
                                       !.ini.acceptTimer = NoTimer], "iniRelay"))

\* the timer of withTimeout(server.accept(), directTimeoutMs)
IniAcceptTimeout ==
    /\ Due(ini.acceptTimer)
    /\ Apply([World EXCEPT !.ini.acceptPromise = "rejected", !.ini.acceptTimer = NoTimer])

\* a faulty grace timeout, which returns the viable direct connection
IniGraceTimeout_Direct ==
    /\ Due(ini.graceTimer)
    /\ Apply([World EXCEPT !.ini = IniSettle([ini EXCEPT !.graceTimer = NoTimer],
                                             "direct", "none", <<>>)])

\* the timer of withTimeout(relayEventPromise, 2000): the catch block is entered
IniGraceTimeout ==
    /\ Due(ini.graceTimer)
    /\ Apply([World EXCEPT !.ini.pc = "awaitRelay", !.ini.graceTimer = NoTimer])

IniTransport(ok) == ini.pc = "connectTransport" /\ Apply(IniTransportSettles(World, ok))

IniBind(peerReady) ==
    /\ ini.pc \in {"relayBind", "relayBindLoop"}
    /\ Apply(IniBindReturns(World, peerReady))

\* a relayBind call throws
IniBindFailed ==
    /\ ini.pc \in {"relayBind", "relayBindLoop"}
    /\ Apply([World EXCEPT !.ini = IniSettle([ini EXCEPT !.lastBind = "threw"], "rejected",
                                              "relayBind failed", <<>>)])

\* the 100 ms sleep of the loop is over
IniSleepDone == Due(ini.sleepTimer) /\ Apply(IniCallBind(World, "relayBindLoop"))

InitiatorNext ==
    \/ NegotiationEnvironment
    \/ IniStart
    \/ IniTokenRefused
    \/ \E ok \in BOOLEAN : IniAccept(ok)
    \/ IniAcceptTimeout
    \/ IniGraceTimeout
    \/ \E ok \in BOOLEAN : IniTransport(ok)
    \/ \E peerReady \in BOOLEAN : IniBind(peerReady)
    \/ IniBindFailed
    \/ IniSleepDone

InitiatorSpec == NegotiationInit /\ [][InitiatorNext]_vars

\* Time passes and a timer that is due fires; the calls the initiator awaits
\* (server.accept, connectTransport, relayBind) and the events of the socket
\* need not come.
FairInitiatorSpec ==
    /\ InitiatorSpec
    /\ WF_vars(\/ Tick
               \/ \E id \in WaitIds : WaitTimeout(id)
               \/ IniAcceptTimeout
               \/ IniGraceTimeout
               \/ IniSleepDone)

SignalingEventOf(sessionId, from, kind, relay) ==
    [sessionId |-> sessionId, from |-> from, kind |-> kind, relay |-> relay]

\* the offer event the responder is called with, and the relay event that came
\* with it
RspStart ==
    /\ rsp.pc = "idle"
    /\ \E directTimeoutMs \in {0, 5, 22}, token \in {<<"k">>},
          offerEvent \in { SignalingEventOf(S1, Peer, "quic_offer", "absent"),
                           SignalingEventOf(<<>>, Peer, "quic_offer", "absent"),
                           SignalingEventOf(S1, Peer, "quic_answer", "absent") },
          relayEvent \in { NoArg,
                           SignalingEventOf(S1, Peer, "quic_relay", "valid"),
                           SignalingEventOf(S1, Peer, "quic_relay", "incomplete"),
                           SignalingEventOf(S2, Peer, "quic_relay", "valid") } :
           ApplyOn("rsp", RspBegin(WorldOf("rsp"), directTimeoutMs, token,
                                   offerEvent, relayEvent))

RspConnect(ok) ==
    rsp.client = "pending" /\ ApplyOn("rsp", RspClientSettles(WorldOf("rsp"), ok))
\* a variant in which the timeout of the connect rejects the negotiation
RspConnectTimeout_Rejecting ==
    /\ Due(rsp.connectTimer)
    /\ ApplyOn("rsp", [WorldOf("rsp") EXCEPT
                          !.rsp = RspSettle([rsp EXCEPT !.connectPromise = "rejected",
                                                        !.connectTimer = NoTimer],
                                            "rejected", "Timed out (direct QUIC connect)")])

\* the timer of withTimeout(client.connect(offer), directTimeoutMs)
RspConnectTimeout ==
    /\ Due(rsp.connectTimer)
    /\ ApplyOn("rsp", [WorldOf("rsp") EXCEPT !.rsp.connectPromise = "rejected",
                                             !.rsp.connectTimer = NoTimer])

RspTransport(ok) ==
    rsp.pc = "connectTransport" /\ ApplyOn("rsp", RspTransportSettles(WorldOf("rsp"), ok))

RspBind(peerReady) ==
    /\ rsp.pc \in {"relayBind", "relayBindLoop"}
    /\ ApplyOn("rsp", RspBindReturns(WorldOf("rsp"), peerReady))

\* a relayBind call throws
RspBindFailed ==
    /\ rsp.pc \in {"relayBind", "relayBindLoop"}
    /\ ApplyOn("rsp", [WorldOf("rsp") EXCEPT
                          !.rsp = RspSettle([rsp EXCEPT !.lastBind = "threw"], "rejected",
                                            "relayBind failed")])

\* the 100 ms sleep of the loop is over
RspSleepDone ==
    /\ Due(rsp.sleepTimer)
    /\ ApplyOn("rsp", [WorldOf("rsp") EXCEPT !.rsp = RspCallBind(rsp, "relayBindLoop")])

ResponderNext ==
    \/ NegotiationEnvironment
    \/ RspStart
    \/ \E ok \in BOOLEAN : RspConnect(ok)
    \/ RspConnectTimeout
    \/ \E ok \in BOOLEAN : RspTransport(ok)
    \/ \E peerReady \in BOOLEAN : RspBind(peerReady)
    \/ RspBindFailed
    \/ RspSleepDone

ResponderSpec == NegotiationInit /\ [][ResponderNext]_vars

\* one negotiation, of either kind, on the channel
NegotiationNext ==
    \/ rsp.pc = "idle" /\ InitiatorNext
    \/ ini.pc = "idle" /\ ResponderNext

NegotiationSpec == NegotiationInit /\ [][NegotiationNext]_vars

\* offerTimeoutMs, in ticks, is none or 300 ms
AccStart ==
    /\ acc.pc = "idle"
    /\ \E offerTimeoutMs \in {0, 3}, directTimeoutMs \in {5}, token \in {<<"k">>} :
           Apply(AccBegin(World, offerTimeoutMs, directTimeoutMs, token))

\* acceptQuicDirectFirst up to the call of respondQuicOfferDirectFirst; the
\* channel receives offers, with and without a session id, and relay events,
\* two of them of one session
AcceptNext ==
    \/ AccStart
    \/ \E frame \in
            { SignalingFrame(S1, Peer, "quic_offer", "absent"),
              SignalingFrame(Absent, Peer, "quic_offer", "absent"),
              SignalingFrame(S1, Peer, "quic_relay", "valid"),
              SignalingFrame(S1, Peer, "quic_relay", "incomplete"),
              SignalingFrame(S2, Peer, "quic_relay", "valid"),
              SignalingFrame(Absent, Peer, "quic_relay", "valid"),
              SignalingFrame(S1, Peer, "quic_answer", "absent") } :
           NegSocketMessage(frame)
    \/ \E error \in {<<"boom">>, <<"read", "ECONNRESET">>} : NegSocketError(error)
    \/ NegSocketClose
    \/ ChannelEvent(close(ch))
    \/ WaitTimeout("offer")
    \/ Tick

AcceptSpec == NegotiationInit /\ [][AcceptNext]_vars

(***************************************************************************)
(* Two calls at a time on the one signaling channel of a client: two       *)
(* dispatchers, two initiators toward the same peer, or one of each. The   *)
(* calls are followed while no timer is due.                               *)
(***************************************************************************)
ConcurrentSpec ==
    /\ NegotiationInit
    /\ [][
        LET W == [ch |-> ch, waits |-> waits, ini |-> ini, rsp |-> rsp, acc |-> acc,
                  other |-> IF unit.kind = "call" THEN unit.other
                            ELSE [waits |-> NoWaits, ini |-> NoIni, rsp |-> NoRsp, acc |-> NoAcc]]
            View(who) == IF who = "first" THEN W ELSE Swap(W)
            \* the continuations of both calls run before the next event is handled
            Both(who, t) ==
                LET a == Settle(t)
                    b == Settle(Swap(a))
                    r == IF who = "first" THEN Swap(b) ELSE b
                IN /\ ch' = Rest(r.ch)
                   /\ waits' = r.waits
                   /\ ini' = r.ini
                   /\ rsp' = r.rsp
                   /\ acc' = r.acc
                   /\ unit' = [kind |-> "call", other |-> r.other]
                   /\ UNCHANGED <<api, inbound, hist, rch>>
            NotBegun(s) == s.ini.pc = "idle" /\ s.acc.pc = "idle" /\ s.rsp.pc = "idle"
        IN \/ \E who \in {"first", "second"} :
                 /\ NotBegun(View(who))
                 /\ Both(who, AccBegin(View(who), 0, 5, <<"k">>))
           \/ \E who \in {"first", "second"} :
                 /\ NotBegun(View(who))
                 /\ Both(who, IniBegin(View(who), 5, Peer, <<"k">>))
           \/ \E frame \in { SignalingFrame(S1, Peer, "quic_offer", "absent"),
                              SignalingFrame(S1, Peer, "quic_relay", "valid"),
                              SignalingFrame(S2, Peer, "quic_relay", "valid") } :
                 LET c1 == handleMessagePayload(ch, frame)
                 IN Both("first", Deliver([W EXCEPT !.ch = c1], c1.out))
           \/ \E who \in {"first", "second"}, ok \in BOOLEAN :
                 /\ View(who).ini.server = "pending"
                 /\ Both(who, IniServerSettles(View(who), ok))
           \/ \E who \in {"first", "second"}, ok \in BOOLEAN :
                 /\ View(who).ini.pc = "connectTransport"
                 /\ Both(who, IniTransportSettles(View(who), ok))
           \/ \E who \in {"first", "second"} :
                 /\ View(who).ini.pc \in {"relayBind", "relayBindLoop"}
                 /\ Both(who, IniBindReturns(View(who), TRUE))
           \/ \E who \in {"first", "second"}, ok \in BOOLEAN :
                 /\ View(who).rsp.client = "pending"
                 /\ Both(who, RspClientSettles(View(who), ok))
           \/ \E who \in {"first", "second"}, ok \in BOOLEAN :
                 /\ View(who).rsp.pc = "connectTransport"
                 /\ Both(who, RspTransportSettles(View(who), ok))
           \/ \E who \in {"first", "second"} :
                 /\ View(who).rsp.pc \in {"relayBind", "relayBindLoop"}
                 /\ Both(who, RspBindReturns(View(who), TRUE))
       ]_vars

(***************************************************************************)
(* One session: the initiator dials the responder, the directory routes    *)
(* the offer and sends the relay info of the session to both, and the      *)
(* responder's QUIC client connects to the initiator's server. Each side   *)
(* calls the other one Peer; both channels stay open.                      *)
(***************************************************************************)
SessionInit ==
    /\ ch = [NewChannel(OPEN, "resolved") EXCEPT !.emitted["open"] = 1]
    /\ rch = ch
    /\ api = NoCall
    /\ inbound = NoInbound
    /\ hist = [NoHist EXCEPT !.session = TRUE]
    /\ waits = NoWaits
    /\ ini = NoIni
    /\ rsp = NoRsp
    /\ acc = NoAcc
    /\ unit = [kind |-> "none"]

\* the offer reaches the responder, with the relay event if that came first;
\* both sides run with the same directTimeoutMs
SessionRspStart ==
    /\ rsp.pc = "idle"
    /\ ch.written # <<>>
    /\ rsp.offerDelay <= MaxOfferDelay
    /\ \E token \in {<<"k">>},
          relayEvent \in {NoArg, SignalingEventOf(S1, Peer, "quic_relay", "valid")} :
           ApplyOn("rsp", RspBegin(WorldOf("rsp"), ini.directTimeoutMs, token,
                                   SignalingEventOf(S1, Peer, "quic_offer", "absent"),
                                   relayEvent))

\* the relay info of the session reaches a side, once
SessionRelay(who) ==
    /\ ch.written # <<>>
    /\ IF who = "ini" THEN ini.relayWhen = "none"
       ELSE rsp.pc # "idle" /\ ~rsp.cached /\ rsp.relayFirst = NoArg
    /\ LET c1 == handleMessagePayload(WorldOf(who).ch,
                               SignalingFrame(S1, Peer, "quic_relay", "valid"))
       IN ApplyOn(who, Deliver([Observe(who, WorldOf(who), c1.out) EXCEPT !.ch = c1],
                               c1.out))

\* server.accept() resolves with the connection the responder's client made;
\* the direct attempt succeeds at some moment or runs into the timers; a
\* transport.relayBind call returns true iff the peer is already bound
SessionNext ==
    \/ IniStart
    \/ SessionRspStart
    \/ \E who \in {"ini", "rsp"} : SessionRelay(who)
    \/ \E id \in WaitIds : WaitTimeout(id)
    \/ Tick
    \/ rsp.client = "resolved" /\ IniAccept(TRUE)
    \/ IniAcceptTimeout
    \/ IniGraceTimeout
    \/ IniTransport(TRUE)
    \/ IniBind(rsp.called)
    \/ IniSleepDone
    \/ RspConnect(TRUE)
    \/ RspConnectTimeout
    \/ RspTransport(TRUE)
    \/ RspBind(ini.called)
    \/ RspSleepDone

SessionSpec == SessionInit /\ [][SessionNext]_vars

(***************************************************************************)
(* The parts of the library that are used on their own: the emitter, the   *)
(* candidates of an offer, the decoder of a command, the load tracker      *)
(***************************************************************************)
\* a faulty loop of emit, which walks the bucket as it is while the listeners run
RECURSIVE emitLoop_Live(_, _, _, _)
emitLoop_Live(c, event, handlers, log) ==
    IF handlers = <<>> THEN [em |-> c, log |-> log]
    ELSE LET listener == Head(handlers)
             c1 == CASE listener = "once" -> off(c, event, "once")
                     [] listener = "adder" -> on(c, event, "late")
                     [] OTHER -> c
             bucket == IF event \in DOMAIN c1.listeners THEN c1.listeners[event] ELSE <<>>
             log1 == Append(log, listener)
         IN emitLoop_Live(c1, event,
                          SelectSeq(bucket, LAMBDA l : \A i \in 1..Len(log1) : log1[i] # l),
                          log1)

\* the loop of SimpleEventEmitter.emit over Array.from(bucket). The listener
\* "once" unsubscribes itself when it runs, "adder" subscribes "late" to the
\* event; the log holds the listeners in the order they were invoked.
RECURSIVE emitLoop(_, _, _, _)
emitLoop(c, event, handlers, log) ==
    IF handlers = <<>> THEN [em |-> c, log |-> log]
    ELSE LET listener == Head(handlers)
             c1 == CASE listener = "once" -> off(c, event, "once")
                     [] listener = "adder" -> on(c, event, "late")
                     [] OTHER -> c
         IN emitLoop(c1, event, Tail(handlers), Append(log, listener))

\* The candidates of an offer (native wrapper): a candidate is the sequence of
\* its characters.
normalizeCandidate_V4Only(candidate) ==
    LET value == Trim(StringOf(candidate))
        n == Len(value)
    IN IF /\ n >= 9
          /\ SubSeq(value, 1, 8) = <<"0", ".", "0", ".", "0", ".", "0", ":">>
          /\ \A i \in 9..n : value[i] \in {"0", "1", "2", "3", "4", "5", "6", "7", "8", "9"}
       THEN <<"1", "2", "7", ".", "0", ".", "0", ".", "1", ":">> \o SubSeq(value, 9, n)
       ELSE value

normalizeCandidate(candidate) ==
    LET value == Trim(StringOf(candidate))
        n == Len(value)
        \* /^\d+$/
        digits(s) == /\ s # <<>>
                     /\ \A i \in 1..Len(s) :
                            s[i] \in {"0", "1", "2", "3", "4", "5", "6", "7", "8", "9"}
        \* /^\[([^\]]+)\]:(\d+)$/ : the host ends at the first "]"
        closeAt == IF \E k \in 1..n : value[k] = "]"
                   THEN CHOOSE k \in 1..n :
                            value[k] = "]" /\ \A j \in 1..(k - 1) : value[j] # "]"
                   ELSE 0
        bracketMatch == /\ n > 0
                        /\ value[1] = "["
                        /\ closeAt >= 3
                        /\ closeAt + 1 <= n
                        /\ value[closeAt + 1] = ":"
                        /\ digits(SubSeq(value, closeAt + 2, n))
        bracketHost == SubSeq(value, 2, closeAt - 1)
        bracketPort == SubSeq(value, closeAt + 2, n)
        \* value.lastIndexOf(":"), counted from 1 (0 when there is none)
        index == IF \E k \in 1..n : value[k] = ":"
                 THEN CHOOSE k \in 1..n :
                          value[k] = ":" /\ \A j \in (k + 1)..n : value[j] # ":"
                 ELSE 0
        host == SubSeq(value, 1, index - 1)
        port == SubSeq(value, index + 1, n)
    IN IF value = <<>> THEN value
       ELSE IF bracketMatch
            THEN IF \/ bracketHost = <<":", ":">>
                    \/ bracketHost = <<"0", ":", "0", ":", "0", ":", "0", ":",
                                       "0", ":", "0", ":", "0", ":", "0">>
                 THEN <<"[", ":", ":", "1", "]", ":">> \o bracketPort
                 ELSE value
       ELSE IF index <= 1 \/ index = n THEN value
       ELSE IF ~digits(port) THEN value
       ELSE IF host = <<"0", ".", "0", ".", "0", ".", "0">>
            THEN <<"1", "2", "7", ".", "0", ".", "0", ".", "1", ":">> \o port
       ELSE IF host = <<":", ":">>
            THEN <<"[", ":", ":", "1", "]", ":">> \o port
       ELSE value

\* normalizeSignalingPayload on the payload of a frame: kind is payload.kind
\* and value the field of the payload that is named after the kind, "absent"
\* when the payload has no such key; "payload" is the payload object itself
\* (no payload of a command has a key named payload)
normalizeSignalingPayload(payload) ==
    IF payload.kind \in {"quic_offer", "quic_answer", "quic_candidate", "quic_relay"}
    THEN [ kind |-> payload.kind,
           value |-> IF payload.value \in {"absent", "null"} THEN "payload"
                     ELSE payload.value ]
    ELSE IF payload.kind = "disconnect"
    THEN [ kind |-> "disconnect",
           value |-> IF payload.value = "absent" THEN "undefined" ELSE payload.value ]
    ELSE [ kind |-> "reject",
           value |-> IF payload.value \in {"absent", "null"} THEN "unknown"
                     ELSE payload.value ]

\* LoadTracker: released[i] is the flag of the function that the i-th begin()
\* returned; a capacity that is not NaN is a whole number after the constructor
begin(t) == [t EXCEPT !.inFlight = @ + 1, !.released = Append(@, FALSE)]

release(t, i) ==
    IF t.released[i] THEN t
    ELSE [t EXCEPT !.released[i] = TRUE,
                   !.inFlight = Max(0, @ - 1)]

\* Math.max(0, Math.min(1, inFlight / capacity)), as the fraction num / den;
\* every Math function gives NaN when an argument is NaN
load(t) ==
    IF t.capacityNaN THEN [nan |-> TRUE, num |-> 0, den |-> 1]
    ELSE IF t.inFlight >= t.capacity THEN [nan |-> FALSE, num |-> 1, den |-> 1]
    ELSE IF t.inFlight <= 0 THEN [nan |-> FALSE, num |-> 0, den |-> 1]
    ELSE [nan |-> FALSE, num |-> t.inFlight, den |-> t.capacity]

\* an offer has no candidates field when the native part gave no array
normalizeOfferCandidates(offer) ==
    IF "candidates" \notin DOMAIN offer \/ Len(offer.candidates) = 0 THEN offer
    ELSE [offer EXCEPT !.candidates =
              [i \in 1..Len(offer.candidates) |-> normalizeCandidate(offer.candidates[i])]]

UnitInit ==
    /\ ch = NewChannel(CONNECTING, "pending")
    /\ rch = NewChannel(CONNECTING, "pending")
    /\ api = NoCall
    /\ inbound = NoInbound
    /\ hist = NoHist
    /\ waits = NoWaits
    /\ ini = NoIni
    /\ rsp = NoRsp
    /\ acc = NoAcc
    /\ unit \in
          \* an emitter, with the dispatch it made last
          { [ kind |-> "emitter", em |-> NewChannel(OPEN, "resolved"),
              event |-> "none", before |-> <<>>, log |-> <<>> ] }
          \cup
          \* a peer server, with the offer its native part produces
          LET z4 == <<"0", ".", "0", ".", "0", ".", "0">>
              z6 == <<"[", ":", ":", "]">>
              long6 == <<"[", "0", ":", "0", ":", "0", ":", "0", ":",
                         "0", ":", "0", ":", "0", ":", "0", "]">>
              candidates ==
                  { z4 \o <<":", "4">>, z4 \o <<":", "4", "7">>, z6 \o <<":", "4">>,
                    <<"1", "2", "7", ".", "0", ".", "0", ".", "1", ":", "4">>,
                    <<"[", ":", ":", "1", "]", ":", "4">>,
                    <<"h", ":", "4">>, <<"h">>, <<>>, <<":", "4">>,
                    long6 \o <<":", "4">>, <<":", ":", ":", "4">>,
                    <<SP>> \o z4 \o <<":", "4">>, <<"h", ":", "4", SP>>,
                    z4 \o <<":", "x">>, z4 \o <<":">>, z4,
                    z6 \o <<":", "x">>, z6 \o <<"4">>, <<"[", "]", ":", "4">>,
                    <<"[", "h", "]", ":", "4">> }
          IN { [kind |-> "offer", done |-> FALSE, raw |-> o, offer |-> o] :
                   o \in {[cert |-> "der"]}
                          \cup { [cert |-> "der", candidates |-> cs] :
                                   cs \in {<<>>} \cup { <<a>> : a \in candidates }
                                             \cup { <<a, b>> : a, b \in candidates } } }
          \cup
          \* a command to send on an open channel, and what the peer's decoder
          \* makes of its frame
          { [ kind |-> "command", done |-> FALSE, op |-> op, value |-> value,
              decoded |-> [kind |-> "none", value |-> "none"] ] :
                op \in SendOps,
                value \in {"v", "null", "undefined", "false", "zero", "emptystr"} }
          \cup
          \* new LoadTracker(capacity), for NaN and for the capacities halves / 2:
          \* capacity = Math.max(1, Math.floor(capacity))
          { [ kind |-> "tracker",
              t |-> [ capacityNaN |-> FALSE, capacity |-> Max(1, halves \div 2),
                      inFlight |-> 0, released |-> <<>> ] ] :
                halves \in {0 - 2, 0, 1, 2, 3, 4, 5, 8} }
          \cup
          { [ kind |-> "tracker",
              t |-> [capacityNaN |-> TRUE, capacity |-> 0, inFlight |-> 0, released |-> <<>>] ] }

UnitNext ==
    /\ UNCHANGED <<ch, rch, api, inbound, hist, waits, ini, rsp, acc>>
    /\ \/ \* emitter.on(event, listener)
          /\ unit.kind = "emitter"
          /\ \E event \in {"raw", "session"}, listener \in {"plain", "once", "adder", "late"} :
                 unit' = [unit EXCEPT !.em = on(@, event, listener),
                                      !.event = "none", !.before = <<>>, !.log = <<>>]
       \/ \* emitter.off(event, listener), or the function that on returned
          /\ unit.kind = "emitter"
          /\ \E event \in {"raw", "session"}, listener \in {"plain", "once", "adder", "late"} :
                 unit' = [unit EXCEPT !.em = off(@, event, listener),
                                      !.event = "none", !.before = <<>>, !.log = <<>>]
       \/ \* emitter.emit(event)
          /\ unit.kind = "emitter"
          /\ \E event \in {"raw", "session"} :
                 LET c1 == emit(unit.em, event, NoArg)
                     r == emitLoop(Rest(c1), event, c1.out[1].handlers, <<>>)
                 IN unit' = [unit EXCEPT
                               !.em = r.em, !.event = event, !.log = r.log,
                               !.before = IF event \in DOMAIN unit.em.listeners
                                          THEN unit.em.listeners[event] ELSE <<>>]
       \/ \* emitter.clear()
          /\ unit.kind = "emitter"
          /\ unit' = [unit EXCEPT !.em = clear(@),
                                   !.event = "none", !.before = <<>>, !.log = <<>>]
       \/ \* server.offer(advertisedCandidates)
          /\ unit.kind = "offer"
          /\ ~unit.done
          /\ unit' = [unit EXCEPT !.done = TRUE, !.offer = normalizeOfferCandidates(unit.raw)]
       \/ \* tracker.begin()
          /\ unit.kind = "tracker"
          /\ Len(unit.t.released) < MaxBegins
          /\ unit' = [unit EXCEPT !.t = begin(@)]
       \/ \* a function that begin() returned is called
          /\ unit.kind = "tracker"
          /\ \E i \in 1..Len(unit.t.released) : unit' = [unit EXCEPT !.t = release(@, i)]
       \/ \* the command is sent, and the frame written is decoded
          /\ unit.kind = "command"
          /\ ~unit.done
          /\ LET c == NewChannel(OPEN, "resolved")
                 c1 == CASE unit.op = "sendQuicOffer" -> sendQuicOffer(c, <<"a">>, unit.value)
                         [] unit.op = "sendQuicAnswer" ->
                                sendQuicAnswer(c, <<"s">>, <<"a">>, unit.value)
                         [] unit.op = "sendQuicCandidate" ->
                                sendQuicCandidate(c, <<"s">>, <<"a">>, unit.value)
                         [] OTHER -> disconnectSession(c, <<"s">>, <<"a">>, unit.value)
             IN unit' = [unit EXCEPT !.done = TRUE,
                                     !.decoded = normalizeSignalingPayload(c1.written[1])]

UnitSpec == UnitInit /\ [][UnitNext]_vars


(***************************************************************************)
(* C1-C7: the signaling channel                                            *)
(***************************************************************************)
AllFrames == ch.written \o ch.pendingFrames

\* C1: the frames of the sends accepted before the socket opens stay queued,
\* in submission order, until the channel handles the socket's open; from then
\* on they are the first frames written to the socket, in submission order,
\* each once (every later write is a send made after the open).
C1_QueuedFramesFlushedInOrder ==
    /\ ~hist.opened => ch.written = <<>> /\ ch.pendingFrames = hist.queuedBeforeOpen
    /\ hist.openHandled =>
          /\ Len(ch.written) = Len(hist.queuedBeforeOpen) + hist.directWrites
          /\ SubSeq(ch.written, 1, Len(hist.queuedBeforeOpen)) = hist.queuedBeforeOpen

C1_Witness ==
    /\ hist.openHandled
    /\ Len(hist.queuedBeforeOpen) = 2
    /\ hist.queuedBeforeOpen[1] # hist.queuedBeforeOpen[2]
    /\ ch.written = hist.queuedBeforeOpen

\* the close event has been emitted once when the channel is closed and not at
\* all before
C2_CloseEmittedOnce == ch.emitted["close"] = IF ch.isClosed THEN 1 ELSE 0

\* C2: the close event is emitted exactly once, on entry to the closed state,
\* and after a call of close() the channel does get closed and the event emitted.
C2_CloseEventExactlyOnce ==
    /\ []C2_CloseEmittedOnce
    /\ [](hist.closeCalls > 0 => <>(ch.isClosed /\ ch.emitted["close"] = 1))

C2_Witness == hist.closeCalls = 2 /\ ch.isClosed /\ ch.emitted["close"] = 1

\* C3: a send made after close() was called, or after the channel entered the
\* closed state, throws, writes no frame and queues none.
C3_SendAfterCloseFails ==
    (api.op \in SendOps /\ api.afterClose) =>
        (api.thrown # "none" /\ ~api.wrote /\ ~api.queued)

\* the ready signal is resolved exactly when the channel handled the
\* socket's open before any error or close of the socket, rejected exactly when
\* an error or a close came first, pending before either; once settled it keeps
\* its outcome.
C4_ReadyOutcome ==
    /\ ch.ready = "resolved" <=> (hist.openHandled /\ ~hist.failedBeforeOpen)
    /\ ch.ready = "rejected" <=> hist.failedBeforeOpen
    /\ ch.settledReady <=> ch.ready # "pending"

\* C4: the ready signal has the outcome of what came first, the open or an
\* error or close, and once settled it keeps that outcome.
C4_ReadySettlesOnce ==
    /\ []C4_ReadyOutcome
    /\ [][ch.ready # "pending" => ch'.ready = ch.ready]_vars

C4_Witness == ch.ready = "rejected" /\ hist.openHandled /\ ch.emitted["open"] = 1

WellFormedFrame(frame) ==
    /\ frame.text = "json"
    /\ frame.top = "object"
    /\ frame.event \in TypedEvents
    /\ frame.shape \notin {"absent", "null"}

TypedOf(dispatched) == SelectSeq(dispatched, LAMBDA e : e \in TypedEvents)

\* C5: a frame that is a JSON object with a recognised event and a non-null
\* payload has exactly one typed event dispatched, of the family of its event;
\* any other frame has nothing dispatched and leaves the channel as it was.
C5_ExactlyOneTypedEvent ==
    inbound.delivered =>
        IF WellFormedFrame(inbound.frame)
        THEN TypedOf(inbound.dispatched) = <<inbound.frame.event>>
        ELSE inbound.dispatched = <<>> /\ inbound.unchanged

\* C6: every frame written or queued is a signal command; a quic_offer has no
\* session_id, every other kind has a session_id that is not empty and has no
\* surrounding whitespace.
SessionIdRule(frame) ==
    /\ frame.type = "signal"
    /\ frame.kind \in {"quic_offer", "quic_answer", "quic_candidate", "disconnect"}
    /\ IF frame.kind = "quic_offer"
       THEN frame.session_id = Absent
       ELSE /\ frame.session_id \notin {Absent, Undef, <<>>}
            /\ Head(frame.session_id) # SP
            /\ frame.session_id[Len(frame.session_id)] # SP

C6_SessionIdByKind == \A i \in 1..Len(AllFrames) : SessionIdRule(AllFrames[i])

C6_Witness ==
    /\ Len(ch.written) = 2
    /\ ch.written[1].kind = "quic_offer"
    /\ ch.written[2].kind = "quic_answer"
    /\ api.op = "sendQuicAnswer"
    /\ api.sessionId = <<"s", SP>>
    /\ api.wrote

Blank(value) == value = Undef \/ \A i \in 1..Len(value) : value[i] = SP

InvalidSend ==
    /\ api.op \in SendOps
    /\ \/ Blank(api.targetAgentId)
       \/ api.op # "sendQuicOffer" /\ Blank(api.sessionId)

ValidationErrors ==
    { "target agent_id is required for signaling",
      "session_id is required for signaling",
      "signaling channel closed" }

\* C7: a send with a blank target agent id, or (other than an offer) a blank
\* session id, throws a validation error and leaves the channel as it was; on
\* a channel that is not closed the error is the one of the blank id.
C7_BlankIdsRejected ==
    InvalidSend =>
        /\ api.thrown \in ValidationErrors
        /\ api.thrown = "signaling channel closed" => ch.isClosed
        /\ ~api.wrote /\ ~api.queued /\ api.unchanged

C7_Witness ==
    /\ api.op = "sendQuicAnswer"
    /\ api.sessionId = <<SP, SP>>
    /\ api.thrown = "session_id is required for signaling"
    /\ ch.pendingFrames # <<>>


(***************************************************************************)
(* C8-C10: the direct-first negotiation                                    *)
(***************************************************************************)
\* the direct accept completed within directTimeoutMs, and the first quic_relay
\* event from the peer came before it or less than 2 s after it
C8_Accepted ==
    /\ ini.acceptPromise = "resolved"
    /\ ini.relayWhen \in {"beforeAccept", "inGrace"}

C8_Direct ==
    /\ ini.pc = "done"
    /\ ini.result.mode = "direct"
    /\ ini.result.sessionId = ini.relaySid
    /\ ini.result.peerAgentId = Peer

\* C8, as stated: when the direct accept completed within directTimeoutMs and
\* a quic_relay event from the peer came before the accept or within the 2 s
\* after it, the negotiation has resolved to Direct with that event's sessionId
\* and the peerAgentId passed in.
C8_DirectWhenRelayInGrace == C8_Accepted => C8_Direct

\* C8, amended: the same, for a relay event that also came less than
\* max(2000 ms, directTimeoutMs) after the start, before any error or close
\* event of the channel, and with valid relay info.
C8_DirectWhenRelayDelivered ==
    (C8_Accepted /\ ini.relayInTime /\ ini.relayClean /\ ini.relayValid) => C8_Direct

C8_Witness ==
    /\ ini.result.mode = "direct"
    /\ ini.relayWhen = "beforeAccept"
    /\ ini.result.sessionId = S2
    /\ ini.directTimeoutMs = 22

\* the relay path as C9 describes it: the direct accept failed, and the relay
\* event came in time on a channel without error, with valid relay info
C9_RelayPath ==
    /\ ini.acceptPromise = "rejected"
    /\ ini.relayWhen # "none"
    /\ ini.relayInTime /\ ini.relayClean /\ ini.relayValid

C9_PollLimit == Max(RelayFloorTicks, ini.directTimeoutMs)

Answers == SelectSeq(AllFrames, LAMBDA frame : frame.kind = "quic_answer")

\* the transport of the answer's mode is set up on the responder's side
C10_SetUp(mode) ==
    IF mode = "direct"
    THEN rsp.connectPromise = "resolved" /\ rsp.connections > 0
    ELSE rsp.transport = "connected" /\ rsp.lastBind \in {"true", "false"}

C10_AnswerMatches ==
    Len(Answers) = 1 =>
        /\ C10_SetUp(Answers[1].value)
        /\ rsp.result.mode = Answers[1].value

\* C10, as stated: a responder negotiation that has ended has sent exactly one
\* quic_answer, none sends more than one, the answer is sent after the
\* transport of its mode was set up, and its mode is the mode of the result.
C10_OneAnswerPerNegotiation ==
    /\ Len(Answers) <= 1
    /\ rsp.pc = "done" => Len(Answers) = 1
    /\ C10_AnswerMatches

\* C10, amended: a responder negotiation has submitted exactly one quic_answer
\* when it has resolved and none when it has rejected or is still running; the
\* answer is submitted after the transport of its mode was set up, and its mode
\* is the mode of the result.
C10_OneAnswerPerHandle ==
    /\ Len(Answers) <= 1
    /\ Len(Answers) = 1 <=> rsp.result.mode \in {"direct", "relay"}
    /\ C10_AnswerMatches

C10_Witness ==
    /\ rsp.result.mode = "relay"
    /\ rsp.connections > 0
    /\ Len(Answers) = 1
    /\ Answers[1].value = "relay"
    /\ Answers[1].session_id = S1
    /\ ~rsp.result.peerReady


(***************************************************************************)
(* C11-C15: the outcomes of the negotiations                               *)
(***************************************************************************)
\* the quic_answer of the direct mode, on the offer's session to the offer's
\* sender, is among the commands the channel accepted
C11_DirectAnswered ==
    \E i \in 1..Len(Answers) :
        /\ Answers[i].value = "direct"
        /\ Answers[i].session_id = rsp.sessionId
        /\ Answers[i].to = rsp.peerAgentId

\* C11: once the responder's direct connect has succeeded within
\* directTimeoutMs, the direct quic_answer was sent on the offer's session to
\* the offer's sender and the negotiation has resolved to Direct with the
\* offer's sessionId and sender; it has neither rejected nor gone on to relay.
C11_DirectConnectEndsDirect ==
    rsp.connectPromise = "resolved" =>
        /\ rsp.pc = "done"
        /\ rsp.result.mode = "direct"
        /\ rsp.result.sessionId = rsp.sessionId
        /\ rsp.result.peerAgentId = rsp.peerAgentId
        /\ C11_DirectAnswered

\* the relay event C12 speaks of: the cached one, or else the first quic_relay
\* event of the offer's session that the channel delivered
C12_RelayEvent == IF rsp.cached THEN rsp.relayEvent ELSE rsp.relayFirst

\* the relay path as C12 describes it: the direct connect failed or timed out,
\* and a relay event with valid relay info was supplied, or came within
\* max(10 s, 5 x directTimeoutMs) on a channel without error
C12_RelayPath ==
    /\ rsp.connectPromise = "rejected"
    /\ parseRelayInfoOk(C12_RelayEvent.relay)
    /\ rsp.cached \/ (rsp.relayFirst # NoArg /\ rsp.relayInTime /\ rsp.relayClean)

C12_PollLimit == Max(RelayFloorTicks, rsp.directTimeoutMs)

\* the negotiation has rejected because the channel refused the answer
C12_AnswerRefused ==
    /\ rsp.result.mode = "rejected"
    /\ rsp.result.error \in ValidationErrors
    /\ Answers = <<>>

\* the relay answer, on the offer's session to the offer's sender
C12_RelayAnswered ==
    /\ Len(Answers) = 1
    /\ Answers[1].value = "relay"
    /\ Answers[1].session_id = rsp.sessionId
    /\ Answers[1].to = rsp.peerAgentId

\* what C12 says, with the rejections it allows for beyond a failed
\* connectTransport or relayBind: a relay event supplied for the offer's session
\* is used without any wait on the channel, and otherwise the first quic_relay
\* event of that session that the channel delivers is; when the direct connect
\* failed and that event is there, the responder connects the relay transport
\* to it; relayBind is called on the connected transport with the offer's
\* sessionId, again PollTicks after each false and never after a true; the loop
\* ends on a true, or on a false once max(2000 ms, directTimeoutMs) have passed
\* since the first call returned, and then the relay answer is sent and the
\* negotiation resolves to Relay with the peerReady of the last call.
C12_Rule(refused) ==
    /\ rsp.cached => (waits["rspRelay"].state = "idle" /\ rsp.relayEvent.sessionId = rsp.sessionId)
    /\ waits["rspRelay"].state = "resolved" => waits["rspRelay"].ev = rsp.relayFirst
    /\ C12_RelayPath =>
          /\ rsp.pc \in {"connectTransport", "relayBind", "sleep", "relayBindLoop", "done"}
          /\ rsp.relayUsed = C12_RelayEvent
          /\ rsp.relayUsed.sessionId = rsp.sessionId
          /\ rsp.result.mode # "direct"
          /\ rsp.result.mode = "rejected" =>
                 (rsp.transport = "failed" \/ rsp.lastBind = "threw" \/ refused)
    /\ rsp.called => (rsp.transport = "connected" /\ rsp.bindArgs.sessionId = rsp.sessionId)
    /\ ~rsp.calledAfterTrue
    /\ rsp.pollOk
    /\ rsp.pc = "sleep" => (rsp.sleepTimer \in 0..PollTicks /\ rsp.lastBind = "false")
    /\ rsp.lastBind = "true" =>
          /\ rsp.pc = "done"
          /\ (rsp.result.mode = "relay" /\ rsp.result.peerReady) \/ refused
    /\ rsp.lastBind = "false" =>
          \/ rsp.pc \in {"sleep", "relayBindLoop"}
          \/ /\ rsp.pc = "done"
             /\ rsp.sinceFirstBind >= C12_PollLimit
             /\ (rsp.result.mode = "relay" /\ ~rsp.result.peerReady) \/ refused
    /\ rsp.result.mode = "relay" =>
          /\ rsp.lastBind \in {"true", "false"}
          /\ rsp.result.peerReady = (rsp.lastBind = "true")
          /\ rsp.result.sessionId = rsp.sessionId
          /\ C12_RelayAnswered

C13_OfferSent == \E i \in 1..Len(AllFrames) : AllFrames[i].kind = "quic_offer"

\* (a) the channel closed or erred before the relay info arrived, and the
\* direct accept has failed
C13_ChannelLost ==
    /\ ini.acceptPromise = "rejected"
    /\ waits["iniRelay"].state = "rejected"
    /\ waits["iniRelay"].reason \in {"channel error", "Signaling channel closed"}
    /\ ini.result.error = waits["iniRelay"].reason

\* (b) the token could not be minted
C13_NoToken ==
    /\ ini.result.error = "issueSignalingToken failed"
    /\ ini.acceptPromise = "none"
    /\ ~C13_OfferSent

\* C13, as stated: an initiator negotiation rejects only when the channel
\* closed or erred before the relay info arrived and the direct accept has
\* failed, or when the token could not be minted.
C13_RejectsOnlyWhenChannelLost ==
    ini.result.mode = "rejected" => (C13_ChannelLost \/ C13_NoToken)

\* the other rejections of the code: the channel refused the offer; the relay
\* wait was rejected, by the channel or by its own timer, whether the direct
\* accept failed or succeeded; the relay info was invalid; connectTransport or
\* relayBind failed
C13_OtherCauses ==
    \/ /\ ini.result.error \in ValidationErrors
       /\ ini.acceptPromise = "none"
       /\ ~C13_OfferSent
    \/ /\ ini.acceptPromise \in {"resolved", "rejected"}
       /\ waits["iniRelay"].state = "rejected"
       /\ waits["iniRelay"].reason \in {"channel error", "Signaling channel closed",
                                         "Timed out waiting for signaling event"}
       /\ ini.result.error = waits["iniRelay"].reason
    \/ /\ ini.result.error = "Invalid quic_relay payload"
       /\ waits["iniRelay"].state = "resolved"
       /\ ~parseRelayInfoOk(waits["iniRelay"].ev.relay)
    \/ /\ ini.result.error = "connectTransport failed"
       /\ ini.transport = "failed"
    \/ /\ ini.result.error = "relayBind failed"
       /\ ini.lastBind = "threw"

\* C13, amended: an initiator negotiation rejects only when the token could not
\* be minted, the channel refused the offer, the relay wait was rejected (by a
\* channel error or close, or by its timer) after the direct accept failed or
\* succeeded, the relay info was invalid, or connectTransport or relayBind
\* failed; and in each of these cases it does reject. A negotiation that ends
\* otherwise resolves to Direct or Relay.
C13_RejectionCauses ==
    /\ ini.result.mode = "rejected" => (C13_NoToken \/ C13_OtherCauses)
    /\ (ini.transport = "failed" \/ ini.lastBind = "threw") => ini.result.mode = "rejected"
    /\ (relayEventPromise(World) = "rejected" /\ ini.acceptPromise \in {"resolved", "rejected"})
          => ini.result.mode = "rejected"
    /\ ini.pc = "done" => ini.result.mode \in {"direct", "relay", "rejected"}
    /\ ini.result.mode \in {"direct", "relay"} =>
          (ini.result.error = "none" /\ relayEventPromise(World) = "resolved")

\* the relay info never came, on a channel that neither closed nor erred
C13_Witness ==
    /\ ini.result.mode = "rejected"
    /\ ini.result.error = "Timed out waiting for signaling event"
    /\ ini.acceptPromise = "rejected"
    /\ ~ini.channelFailed
    /\ ini.relayWhen = "none"

\* C14: whenever the initiator and the responder of one session have both
\* resolved, they have resolved to the same mode.
C14_SameMode ==
    (ini.result.mode \in {"direct", "relay"} /\ rsp.result.mode \in {"direct", "relay"})
        => ini.result.mode = rsp.result.mode

\* the last relayBind call of a negotiation that resolved to Relay returned,
\* and was made with the token and the session id of the result, on the
\* transport of the result; the token is the one the caller gave
C15_BoundAsReturned(n) ==
    n.result.mode = "relay" =>
        /\ n.called
        /\ n.lastBind \in {"true", "false"}
        /\ n.bindArgs.token = n.result.token
        /\ n.bindArgs.sessionId = n.result.sessionId
        /\ n.bindArgs.transport = n.result.transport
        /\ n.result.token = n.token
        /\ n.result.transport # NoArg

\* C15: for a negotiation of either kind that resolved to Relay, the last
\* relayBind call used the token and the session id of the returned handle, on
\* the transport of the handle.
C15_LastBindMatchesHandle == C15_BoundAsReturned(ini) /\ C15_BoundAsReturned(rsp)

C15_Witness ==
    /\ rsp.result.mode = "relay"
    /\ ~rsp.cached
    /\ rsp.polled
    /\ rsp.bindArgs = [ token |-> <<"k">>, sessionId |-> S1,
                        transport |-> SignalingEventOf(S1, Peer, "quic_relay", "valid") ]


(***************************************************************************)
(* C16-C17: the accept dispatcher                                          *)
(***************************************************************************)
\* the relay event seen last for the session of an offer, before the offer
C16_SeenBefore(offer) ==
    IF offer.sessionId = <<>> THEN NoArg ELSE acc.lastSeen[offer.sessionId]

\* C16: while the dispatcher waits, its map holds, for every session id, the
\* last quic_relay event that carried it; the first quic_offer event ends the
\* wait, and the responder is called with that offer and with the relay
\* event the map held for the offer's session id, which it then uses without
\* waiting for another.
C16_RelayBeforeOfferIsKept ==
    LET w == waits["offer"] IN
    /\ (acc.pc = "waiting" /\ w.state = "pending") =>
           /\ <<>> \notin DOMAIN acc.relayBySession
           /\ \A sid \in {S1, S2} : MapGet(acc.relayBySession, sid) = acc.lastSeen[sid]
    /\ (w.state = "resolved") <=> (acc.first = "offer")
    /\ acc.first = "offer" =>
           /\ w.ev = acc.firstOffer
           /\ acc.pc = "responding"
           /\ rsp.pc # "idle"
           /\ rsp.sessionId = acc.firstOffer.sessionId
           /\ rsp.peerAgentId = acc.firstOffer.from
           /\ rsp.token = acc.token
           /\ acc.relayEvent = C16_SeenBefore(acc.firstOffer)
           /\ rsp.cached = (C16_SeenBefore(acc.firstOffer) # NoArg)
           /\ rsp.cached => /\ rsp.relayEvent = C16_SeenBefore(acc.firstOffer)
                            /\ waits["rspRelay"].state = "idle"

\* the responder was called with the later of two relay events of the
\* offer's session, while a relay event of another session was seen as well
C16_Witness ==
    /\ acc.pc = "responding"
    /\ rsp.cached
    /\ rsp.sessionId = S1
    /\ rsp.relayEvent.relay = "incomplete"
    /\ acc.lastSeen[S2] # NoArg

\* the causes that reject the wait
C17_Reason(cause) ==
    CASE cause = "error" -> "channel error"
      [] cause = "close" -> "Signaling channel closed"
      [] OTHER -> "Timed out waiting for quic_offer"

\* the dispatcher's listeners are on the channel
C17_Subscribed(event) ==
    /\ event \in DOMAIN ch.listeners
    /\ \E i \in 1..Len(ch.listeners[event]) : ch.listeners[event][i] = "offer"

\* C17: a pending wait of the dispatcher rejects on the channel's error
\* event, on its close event, and when offerTimeoutMs has run out with no
\* offer, then with "Timed out waiting for quic_offer"; once the wait has
\* ended, by an offer or by a rejection, none of its three listeners is
\* subscribed and its timer is cleared, and the responder is called only
\* after an offer.
C17_WaitEndsClean ==
    LET w == waits["offer"] IN
    /\ acc.first \in {"error", "close"} =>
           /\ w.state = "rejected"
           /\ w.reason = C17_Reason(acc.first)
    /\ (acc.pc # "idle" /\ acc.offerTimeoutMs > 0 /\ acc.first = "none"
            /\ acc.elapsed = acc.offerTimeoutMs) =>
           \/ w.state = "rejected" /\ w.reason = C17_Reason("timer")
           \/ w.state = "pending" /\ Due(w.timer)
    /\ w.state = "rejected" =>
           /\ acc.pc = "rejected"
           /\ acc.error = w.reason
           /\ rsp.pc = "idle"
           /\ w.reason = C17_Reason(IF acc.first = "none" THEN "timer" ELSE acc.first)
           /\ acc.first = "none" => acc.offerTimeoutMs > 0 /\ acc.elapsed = acc.offerTimeoutMs
    /\ (acc.pc # "idle" /\ w.state = "pending") =>
           /\ \A event \in {"signaling", "error", "close"} : C17_Subscribed(event)
           /\ (w.timer = NoTimer) = (acc.offerTimeoutMs = 0)
    /\ (acc.pc # "idle" /\ w.state # "pending") =>
           /\ \A event \in {"signaling", "error", "close"} : ~C17_Subscribed(event)
           /\ w.timer = NoTimer

\* the wait timed out after a relay event and no offer, and left nothing on
\* the channel, which is still open
C17_Witness ==
    /\ acc.pc = "rejected"
    /\ acc.error = "Timed out waiting for quic_offer"
    /\ DOMAIN acc.relayBySession # {}
    /\ ~ch.isClosed /\ ch.readyState = OPEN
    /\ DOMAIN ch.listeners = {}
    /\ waits["offer"].timer = NoTimer


(***************************************************************************)
(* C18-C20: socket errors, and the socket and the listeners of a closed    *)
(* channel                                                                 *)
(***************************************************************************)
C18_SocketStates == {CONNECTING, OPEN, CLOSING, CLOSED}

\* what a terminal error does to the channel, the socket being in state rs
C18_Effect(rs) ==
    /\ ch'.emitted["error"] = ch.emitted["error"]
    /\ IF ~ch.isClosed /\ rs # OPEN
       THEN /\ ch'.isClosed
            /\ ch'.emitted["close"] = 1
            /\ ch.emitted["close"] = 0
       ELSE ch' = [ch EXCEPT !.readyState = rs]

\* C18: a socket error whose lower-cased message contains one of the six
\* terminal needles is never emitted on error; on a channel that is not
\* closed yet it closes the channel, with one close event, exactly when the
\* socket is not open at that moment, and otherwise it leaves the channel as
\* it was.
C18_TerminalErrorClosesQuietly ==
    [][\A error \in ErrorInputs, rs \in C18_SocketStates :
           (SocketError(error, rs) /\ isTerminalSocketError(error)) => C18_Effect(rs)]_vars

\* the channel was closed by an error of the socket alone: the socket has not
\* emitted close, and nothing was emitted on error
C18_Witness ==
    /\ ch.isClosed
    /\ ~ch.closeFired
    /\ hist.errors = 1
    /\ ch.emitted["error"] = 0
    /\ ch.emitted["close"] = 1

\* what the claim says a non-terminal error does
C19_Effect ==
    /\ IF ~ch.settledReady
       THEN ch'.ready = "rejected" /\ ch'.emitted["error"] = ch.emitted["error"]
       ELSE ch'.ready = ch.ready /\ ch'.emitted["error"] = ch.emitted["error"] + 1
    /\ ch'.isClosed = ch.isClosed
    /\ ch'.emitted["close"] = ch.emitted["close"]

\* C19: a non-terminal socket error that the channel handles fails the
\* ready signal if it has not settled, and is emitted on error otherwise and
\* only otherwise; it does not close the channel.
C19_FailsReadyOrEmits ==
    [][\A error \in ErrorInputs, rs \in C18_SocketStates :
           (SocketError(error, rs) /\ ch.attached /\ ~isTerminalSocketError(error))
               => C19_Effect]_vars

\* C20: whenever the channel is closed, its socket is closed or closing or
\* was asked to close, and no listener is subscribed on the channel.
C20_ClosedChannelOwnsNothing ==
    ch.isClosed =>
        /\ ch.readyState \in {CLOSING, CLOSED} \/ ch.closeRequested
        /\ DOMAIN ch.listeners = {}


(***************************************************************************)
(* C21-C22: the emitter                                                    *)
(***************************************************************************)
\* C21: in every state of the emitter, for every event and listener,
\* subscribing the listener and then unsubscribing it gives back the
\* listener state there was before, also when the listener was subscribed
\* already; and no event keeps an empty bucket.
C21_SubscribeUnsubscribeRestores ==
    unit.kind = "emitter" =>
        /\ \A event \in {"raw", "session"}, listener \in {"plain", "once", "adder", "late"} :
               off(on(unit.em, event, listener), event, listener).listeners
                   = unit.em.listeners
        /\ \A event \in DOMAIN unit.em.listeners : unit.em.listeners[event] # <<>>

\* C22: a dispatch invokes the listeners that were subscribed to the event
\* when it started, each once and in the order of their registration,
\* whatever the listeners subscribe and unsubscribe while it runs.
C22_DispatchUsesSnapshot ==
    (unit.kind = "emitter" /\ unit.event # "none") => unit.log = unit.before

\* a dispatch in which a listener unsubscribed itself before a later one ran,
\* and another subscribed a listener that was not invoked
C22_Witness ==
    /\ unit.kind = "emitter"
    /\ unit.event # "none"
    /\ \E i, j, k \in 1..Len(unit.log) :
          /\ unit.log[i] = "once" /\ i < j /\ unit.log[j] = "plain"
          /\ unit.log[k] = "adder"
    /\ \A i \in 1..Len(unit.log) : unit.log[i] # "late"
    /\ LET bucket == unit.em.listeners[unit.event]
       IN /\ \E i \in 1..Len(bucket) : bucket[i] = "late"
          /\ \A i \in 1..Len(bucket) : bucket[i] # "once"

(***************************************************************************)
(* C23: the candidates of an offer                                         *)
(***************************************************************************)
C23_Digits(s) ==
    s # <<>> /\ \A i \in 1..Len(s) :
                    s[i] \in {"0", "1", "2", "3", "4", "5", "6", "7", "8", "9"}

\* v is host ":" P with P a port number
C23_HostPort(host, v) ==
    /\ Len(v) >= Len(host) + 2
    /\ SubSeq(v, 1, Len(host) + 1) = host \o <<":">>
    /\ C23_Digits(SubSeq(v, Len(host) + 2, Len(v)))

C23_Port(host, v) == SubSeq(v, Len(host) + 2, Len(v))

C23_V4Any == <<"0", ".", "0", ".", "0", ".", "0">>
C23_V4Loop == <<"1", "2", "7", ".", "0", ".", "0", ".", "1">>
C23_V6Any == <<"[", ":", ":", "]">>
C23_V6Loop == <<"[", ":", ":", "1", "]">>
C23_V6AnyBare == <<":", ":">>
C23_V6AnyLong == <<"[", "0", ":", "0", ":", "0", ":", "0", ":",
                   "0", ":", "0", ":", "0", ":", "0", "]">>

\* C23 (as stated): in the offer that QuicPeerServer.offer returns, every
\* candidate 0.0.0.0:P has become 127.0.0.1:P, every [::]:P has become
\* [::1]:P, every other candidate is as the native part produced it, the
\* number and the order of the candidates are kept, and normalising the
\* returned offer again changes nothing.
C23_OnlyWildcardsRewritten ==
    (unit.kind = "offer" /\ unit.done) =>
        /\ unit.offer.cert = unit.raw.cert
        /\ IF "candidates" \notin DOMAIN unit.raw THEN unit.offer = unit.raw
           ELSE /\ Len(unit.offer.candidates) = Len(unit.raw.candidates)
                /\ \A i \in 1..Len(unit.raw.candidates) :
                       LET v == unit.raw.candidates[i]
                           out == unit.offer.candidates[i]
                       IN IF C23_HostPort(C23_V4Any, v)
                          THEN out = C23_V4Loop \o <<":">> \o C23_Port(C23_V4Any, v)
                          ELSE IF C23_HostPort(C23_V6Any, v)
                          THEN out = C23_V6Loop \o <<":">> \o C23_Port(C23_V6Any, v)
                          ELSE out = v
        /\ normalizeOfferCandidates(unit.offer) = unit.offer

\* C23 (amended): in the offer that QuicPeerServer.offer returns, every
\* candidate is taken without its surrounding white space; then 0.0.0.0:P
\* has become 127.0.0.1:P, each of [::]:P, [0:0:0:0:0:0:0:0]:P and :::P has
\* become [::1]:P, every other candidate is its trimmed form, the number and
\* the order of the candidates are kept, and normalising the returned offer
\* again changes nothing.
C23_UnspecifiedAddressesRewritten ==
    (unit.kind = "offer" /\ unit.done) =>
        /\ unit.offer.cert = unit.raw.cert
        /\ IF "candidates" \notin DOMAIN unit.raw THEN unit.offer = unit.raw
           ELSE /\ Len(unit.offer.candidates) = Len(unit.raw.candidates)
                /\ \A i \in 1..Len(unit.raw.candidates) :
                       LET v == Trim(unit.raw.candidates[i])
                           out == unit.offer.candidates[i]
                       IN IF C23_HostPort(C23_V4Any, v)
                          THEN out = C23_V4Loop \o <<":">> \o C23_Port(C23_V4Any, v)
                          ELSE IF \E any \in {C23_V6Any, C23_V6AnyLong, C23_V6AnyBare} :
                                      C23_HostPort(any, v)
                          THEN \E any \in {C23_V6Any, C23_V6AnyLong, C23_V6AnyBare} :
                                   /\ C23_HostPort(any, v)
                                   /\ out = C23_V6Loop \o <<":">> \o C23_Port(any, v)
                          ELSE out = v
        /\ normalizeOfferCandidates(unit.offer) = unit.offer

\* an offer of two candidates: a rewritten IPv6 wildcard, then a host that is kept
C23_Witness ==
    /\ unit.kind = "offer"
    /\ unit.done
    /\ "candidates" \in DOMAIN unit.raw
    /\ unit.raw.candidates = <<C23_V6Any \o <<":", "4">>, <<"h", ":", "4">>>>
    /\ unit.offer.candidates = <<C23_V6Loop \o <<":", "4">>, <<"h", ":", "4">>>>

(***************************************************************************)
(* C24: close() twice                                                      *)
(***************************************************************************)
\* C24: a call of channel.close() that follows an earlier close() (or the
\* closure of the channel) leaves the channel as it found it and makes no
\* close request to the socket.
C24_SecondCloseDoesNothing ==
    (api.op = "close" /\ api.afterClose) => (api.unchanged /\ ~api.requestedClose)

(***************************************************************************)
(* C25: a command and the decoder                                          *)
(***************************************************************************)
\* C25: for each of the four send operations and every nested value (null and
\* undefined included), the decoder makes of the frame written a payload of
\* the command's kind with the command's nested value.
C25_DecodeGivesCommandBack ==
    (unit.kind = "command" /\ unit.done) =>
        /\ unit.decoded.kind = CASE unit.op = "sendQuicOffer" -> "quic_offer"
                                 [] unit.op = "sendQuicAnswer" -> "quic_answer"
                                 [] unit.op = "sendQuicCandidate" -> "quic_candidate"
                                 [] OTHER -> "disconnect"
        /\ unit.decoded.value = unit.value

(***************************************************************************)
(* C26: the load tracker                                                   *)
(***************************************************************************)
\* C26: on every tracker, after any begin() calls and calls of the functions
\* they returned, getInFlight() is the number of begin() calls whose function
\* has not been called, and load() is inFlight / capacity capped to [0, 1].
C26_InFlightAndLoad ==
    unit.kind = "tracker" =>
        LET t == unit.t
            open == {i \in 1..Len(t.released) : ~t.released[i]}
            l == load(t)
        IN /\ t.inFlight = Cardinality(open)
           /\ ~l.nan
           /\ l.den > 0
           /\ 0 <= l.num /\ l.num <= l.den
           /\ IF t.inFlight >= t.capacity THEN l.num = l.den
              ELSE l.num * t.capacity = t.inFlight * l.den

(***************************************************************************)
(* C27: every wait has a timer                                             *)
(***************************************************************************)
\* C27: for every directTimeoutMs, a negotiation of the initiator that has begun
\* settles (resolves or rejects) as time passes, also when the calls and the
\* events it awaits never come.
C27_NegotiationSettles == (ini.pc # "idle") ~> (ini.pc = "done")

(***************************************************************************)
(* C28: the queue and the sends made at open                               *)
(***************************************************************************)
\* C28: once the channel has handled the socket's open, the frames queued
\* before the open are the first frames written to the socket, in their
\* order, also when a listener of open sends a command during the dispatch.
C28_QueuedFramesWrittenFirst ==
    hist.openHandled =>
        /\ Len(ch.written) >= Len(hist.queuedBeforeOpen)
        /\ SubSeq(ch.written, 1, Len(hist.queuedBeforeOpen)) = hist.queuedBeforeOpen

C30_Listening(id) ==
    \E event \in DOMAIN ch.listeners :
        \E i \in 1..Len(ch.listeners[event]) : ch.listeners[event][i] = id

C30_InitiatorLeavesNothing ==
    ini.pc = "done" =>
        /\ ini.acceptTimer = NoTimer
        /\ ini.graceTimer = NoTimer
        /\ ini.sleepTimer = NoTimer
        /\ waits["iniRelay"].timer = NoTimer
        /\ ~C30_Listening("iniRelay")

\* C30: whenever a negotiation of the initiator or of the responder has
\* settled, none of the timers it armed is armed and none of the listeners it
\* subscribed is on the channel.
C30_SettledLeavesNothing ==
    /\ C30_InitiatorLeavesNothing
    /\ rsp.pc = "done" =>
          /\ rsp.connectTimer = NoTimer
          /\ rsp.sleepTimer = NoTimer
          /\ waits["rspRelay"].timer = NoTimer
          /\ ~C30_Listening("rspRelay")

(***************************************************************************)
(* C31: direct connections                                                 *)
(***************************************************************************)
\* C31: whenever a negotiation of the initiator or of the responder has
\* settled otherwise than to Direct, no direct connection that its peer
\* server accepted, or that its client made, is open.
C31_NoLeakedConnection ==
    /\ (ini.pc = "done" /\ ini.result.mode # "direct") => ini.connections = 0
    /\ (rsp.pc = "done" /\ rsp.result.mode # "direct") => rsp.connections = 0

(***************************************************************************)
(* C32: the grace after a direct accept                                    *)
(***************************************************************************)
\* the initiator is past its try block, on the relay path
C32_OnRelayPath ==
    ini.pc \in {"awaitRelay", "connectTransport", "relayBind", "sleep", "relayBindLoop"}

\* the relay event came after the grace had run out, in time for the relay
\* wait, on a channel without error and with valid relay info
C32_LateRelay ==
    /\ ini.acceptPromise = "resolved"
    /\ ini.relayWhen = "afterGrace"
    /\ ini.result.mode # "direct"
    /\ ini.relayInTime /\ ini.relayClean /\ ini.relayValid

C33_RelayDuringAccept ==
    /\ ini.relayWhen = "beforeAccept"
    /\ ini.relayInTime /\ ini.relayClean

\* C33: a quic_relay event of the peer that comes while the direct accept is
\* pending leaves the accept pending with its timer, is kept by the relay
\* wait, and is the event whose session id a Direct result carries and whose
\* relay info and session id the relay path uses; and the step in which the
\* direct accept fails, times out or succeeds leaves the relay wait as it was.
C33_WaitsAreIndependent ==
    /\ [](C33_RelayDuringAccept =>
             /\ waits["iniRelay"].state = "resolved"
             /\ waits["iniRelay"].ev.sessionId = ini.relaySid
             /\ ini.result.mode = "direct" => ini.result.sessionId = ini.relaySid
             /\ ini.called =>
                    /\ ini.relayUsed = waits["iniRelay"].ev
                    /\ ini.bindArgs.sessionId = ini.relaySid
             /\ ini.result.mode = "relay" =>
                    /\ ini.result.sessionId = ini.relaySid
                    /\ ini.result.transport = waits["iniRelay"].ev)
    /\ [][(/\ ini.acceptPromise = "pending"
           /\ waits["iniRelay"].state = "pending"
           /\ waits'["iniRelay"].state # "pending") =>
              /\ ini'.pc = "awaitAccept"
              /\ ini'.acceptPromise = "pending"
              /\ ini'.server = ini.server
              /\ ini'.acceptTimer = ini.acceptTimer]_vars
    /\ [][(IniAcceptTimeout \/ \E ok \in BOOLEAN : IniAccept(ok)) =>
              /\ waits'["iniRelay"] = waits["iniRelay"]
              /\ ch'.listeners = ch.listeners]_vars

\* the relay event came during the accept, the accept then timed out with the
\* server still waiting, and the initiator resolved to Relay over that event
C33_Witness ==
    /\ C33_RelayDuringAccept
    /\ ini.acceptPromise = "rejected"
    /\ ini.server = "pending"
    /\ ini.result.mode = "relay"
    /\ ini.result.transport = waits["iniRelay"].ev

\* the error the relay-info promise of the initiator is rejected with
C34_IniRelayError ==
    IF waits["iniRelay"].state = "resolved" THEN "Invalid quic_relay payload"
    ELSE waits["iniRelay"].reason

\* the error the relay-info promise of the responder is rejected with
C34_RspRelayError ==
    IF rspRelayPromise(World) = "resolved" THEN "Invalid quic_relay payload"
    ELSE waits["rspRelay"].reason

\* the relay-info step of the responder has failed: its wait was rejected, or the event it
\* resolved with does not parse
C34_RspRelayFailed ==
    \/ rspRelayPromise(World) = "rejected"
    \/ /\ rspRelayPromise(World) = "resolved"
       /\ ~parseRelayInfoOk(effectiveRelayEvent(World).relay)

\* a negotiation whose direct attempt is over and whose relay path has failed at the
\* named step is rejected with the error of that step
C34_RelayFailureRejects ==
    /\ (ini.acceptPromise \in {"resolved", "rejected"} /\ relayEventPromise(World) = "rejected")
          => (ini.result.mode = "rejected" /\ ini.result.error = C34_IniRelayError)
    /\ ini.transport = "failed"
          => (ini.result.mode = "rejected" /\ ini.result.error = "connectTransport failed")
    /\ ini.lastBind = "threw"
          => (ini.result.mode = "rejected" /\ ini.result.error = "relayBind failed")
    /\ (rsp.pc \notin {"idle", "awaitConnect"} /\ rsp.result.mode # "direct"
          /\ C34_RspRelayFailed)
          => (rsp.result.mode = "rejected" /\ rsp.result.error = C34_RspRelayError)
    /\ rsp.transport = "failed"
          => (rsp.result.mode = "rejected" /\ rsp.result.error = "connectTransport failed")
    /\ rsp.lastBind = "threw"
          => (rsp.result.mode = "rejected" /\ rsp.result.error = "relayBind failed")

\* C34: a failure of the direct attempt (the accept or the connect times out or fails)
\* does not reject a negotiation whose relay-info promise has not failed: the initiator
\* and the responder go on to the relay path; and a failure on the relay path (the
\* relay-info wait rejected, an invalid relay payload, connectTransport failing,
\* relayBind throwing) rejects the negotiation with the one error of that step.
C34_DirectFailureFallsBack ==
    /\ [][((IniAcceptTimeout \/ IniAccept(FALSE)) /\ ini.acceptPromise = "pending")
            => IF relayEventPromise(World) = "rejected"
               THEN ini'.result.mode = "rejected" /\ ini'.result.error = C34_IniRelayError
               ELSE ini'.result.mode = "none"
                    /\ ini'.pc \in {"awaitRelay", "connectTransport"}]_vars
    /\ [][((RspConnectTimeout \/ RspConnect(FALSE)) /\ rsp.connectPromise = "pending")
            => IF C34_RspRelayFailed
               THEN rsp'.result.mode = "rejected" /\ rsp'.result.error = C34_RspRelayError
               ELSE rsp'.result.mode = "none"
                    /\ rsp'.pc \in {"awaitRelay", "connectTransport"}]_vars
    /\ []C34_RelayFailureRejects

\* a responder whose connect failed went on to the relay path, connected the transport,
\* and was rejected there by a relayBind that threw
C34_Witness ==
    /\ rsp.connectPromise = "rejected"
    /\ rsp.transport = "connected"
    /\ rsp.lastBind = "threw"
    /\ rsp.result.mode = "rejected"
    /\ rsp.result.error = "relayBind failed"

\* the quic_offer command the initiator builds for its peer
C35_Offer ==
    Serialize([type |-> "signal", session_id |-> Undef, to |-> ini.peerAgentId,
               kind |-> "quic_offer", value |-> "offer"])

\* the waits of the negotiation have been started
C35_Waiting == ini.acceptPromise # "none" \/ waits["iniRelay"].state # "idle"

\* C35: an initiator negotiation hands the channel one quic_offer command, to peerAgentId
\* and without a session id, before it starts the wait for the direct accept and the wait
\* for relay info, and no other command: the frames of the channel are that one command
\* from the start of the waits on, and none at all when the channel refused the command
\* or the token for the negotiation was refused, in which cases no wait was started.
C35_OneOfferBeforeWaits ==
    /\ ini.pc = "idle" => (AllFrames = <<>> /\ ~C35_Waiting)
    /\ C35_Waiting => AllFrames = <<C35_Offer>>
    /\ (ini.pc # "idle" /\ ~C35_Waiting)
          => /\ AllFrames = <<>>
             /\ ini.result.mode = "rejected"
             /\ ini.result.error \in {"signaling channel closed", "issueSignalingToken failed"}
                                      \cup ValidationErrors
             /\ ini.server = "none"

\* a negotiation that went through the relay path to its end, with the offer as the one
\* frame of the channel
C35_Witness ==
    /\ ini.result.mode = "relay"
    /\ ini.called
    /\ Len(ch.written) = 1
    /\ ch.written[1] = C35_Offer

\* a step emits `open` or writes a frame to the socket
C36_OpensOrWrites ==
    \/ ch'.emitted["open"] # ch.emitted["open"]
    \/ ch'.written # ch.written

C36_ClosedChannelStaysSilent ==
    [][(ch.ready = "rejected" /\ ch.isClosed) => ~C36_OpensOrWrites]_vars

\* two dispatchers wait for an offer on the channel
C37_BothWaiting ==
    /\ unit.kind = "call"
    /\ acc.pc = "waiting" /\ waits["offer"].state = "pending"
    /\ unit.other.acc.pc = "waiting" /\ unit.other.waits["offer"].state = "pending"

\* C37: while two dispatchers wait on one signaling channel, one inbound quic_offer
\* resolves the wait of at most one of them, and so a responder is started for it by at
\* most one of them.
C37_OneOfferOneResponder ==
    /\ [][C37_BothWaiting
            => ~(waits'["offer"].state = "resolved"
                 /\ unit'.other.waits["offer"].state = "resolved")]_vars
    /\ [][C37_BothWaiting => ~(rsp'.pc # "idle" /\ unit'.other.rsp.pc # "idle")]_vars

\* what follows: both responders connected and each wrote its quic_answer for the session
C37_TwoAnswers ==
    /\ unit.kind = "call"
    /\ rsp.result.mode = "direct" /\ unit.other.rsp.result.mode = "direct"
    /\ rsp.sessionId = S1 /\ unit.other.rsp.sessionId = S1
    /\ Len(SelectSeq(ch.written, LAMBDA f : f.kind = "quic_answer" /\ f.session_id = S1)) = 2

\* two initiator negotiations toward the peer wait for relay info on the channel
C38_BothWaiting ==
    /\ unit.kind = "call"
    /\ ini.peerAgentId = unit.other.ini.peerAgentId
    /\ waits["iniRelay"].state = "pending"
    /\ unit.other.waits["iniRelay"].state = "pending"

\* both negotiations returned a handle
C38_BothReturned ==
    /\ unit.kind = "call"
    /\ ini.result.mode \in {"direct", "relay"}
    /\ unit.other.ini.result.mode \in {"direct", "relay"}

\* C38: of two initiator negotiations toward the same peer on one signaling channel, one
\* quic_relay event resolves the relay-info wait of at most one, and the handles the two
\* return carry different session ids.
C38_OneRelayEventOneSession ==
    /\ [][C38_BothWaiting
            => ~(waits'["iniRelay"].state = "resolved"
                 /\ unit'.other.waits["iniRelay"].state = "resolved")]_vars
    /\ [](C38_BothReturned => ini.result.sessionId # unit.other.ini.result.sessionId)

\* the two negotiations keep apart when no relay event comes while both wait: what the
\* first took is not given to the one that starts after it
C38_LaterCallWaitsForItsOwn ==
    [][(unit.kind = "call" /\ waits["iniRelay"].state = "resolved"
          /\ unit.other.waits["iniRelay"].state = "idle")
         => unit'.other.waits["iniRelay"].state # "resolved"]_vars

\* the relay event is a quic_relay event of the session of the offer
C39_OfSession(ev) == isRelayPayload(ev) /\ ev.sessionId = rsp.sessionId

\* C39: a responder that resolves to Relay connected its transport to the relay of a
\* quic_relay event whose sessionId is the offer's, and returns the offer's sessionId;
\* a cached relay event is taken only when it is of the offer's session, and the wait
\* for relay info is resolved only by an event of the offer's session.
C39_RelayOfTheOffersSession ==
    /\ [](rsp.cached => C39_OfSession(rsp.relayEvent))
    /\ [](rsp.transport # "none" => C39_OfSession(rsp.relayUsed))
    /\ [](rsp.result.mode = "relay"
             => /\ rsp.result.sessionId = rsp.sessionId
                /\ rsp.result.transport = rsp.relayUsed
                /\ rsp.bindArgs.transport = rsp.relayUsed
                /\ rsp.bindArgs.sessionId = rsp.sessionId
                /\ C39_OfSession(rsp.relayUsed))
    /\ [][(waits["rspRelay"].state = "pending" /\ waits'["rspRelay"].state = "resolved")
            => (C39_OfSession(waits'["rspRelay"].ev) /\ rsp'.relayFirst # NoArg)]_vars

\* a responder without a cached event that resolved to Relay over the event it waited for
C39_Witness ==
    /\ rsp.result.mode = "relay"
    /\ ~rsp.cached
    /\ rsp.sessionId = S1
    /\ rsp.connectPromise = "rejected"
    /\ rsp.result.transport = waits["rspRelay"].ev

\* the listeners an event would be dispatched to
C40_Bucket(event) == IF event \in DOMAIN ch.listeners THEN ch.listeners[event] ELSE <<>>

C40_Has(event, listener) ==
    \E i \in 1..Len(C40_Bucket(event)) : C40_Bucket(event)[i] = listener

\* the step is the channel's handling of the socket's open, of its close
C40_OpenStep == ~hist.openHandled /\ hist'.openHandled
C40_CloseStep == ~ch.isClosed /\ ch'.isClosed

\* the dispatch of open has reached every listener and the queue was flushed after it
C40_OpenUndisturbed ==
    /\ ch'.pendingFrames = <<>>
    /\ C40_Has("open", "sender")
          => \E i \in 1..Len(ch'.written) : ch'.written[i].value = "opened"

\* the emitter was cleared after the dispatch of close
C40_CloseUndisturbed == DOMAIN ch'.listeners = {}

\* C40: a listener that throws does not disturb the channel: the other listeners of the
\* dispatch are invoked (the one that sends on open has its frame written), the pending
\* queue is flushed after the dispatch of open, and the emitter is cleared after the
\* dispatch of close.
C40_ThrowingListenerIsContained ==
    /\ [][C40_OpenStep => C40_OpenUndisturbed]_vars
    /\ [][C40_CloseStep => C40_CloseUndisturbed]_vars

\* the same of a dispatch none of whose listeners throws
C40_WithoutThrower ==
    /\ [][(C40_OpenStep /\ ~C40_Has("open", "thrower")) => C40_OpenUndisturbed]_vars
    /\ [][(C40_CloseStep /\ ~C40_Has("close", "thrower")) => C40_CloseUndisturbed]_vars

\* each part fails by itself
C40_OpenContained == [][C40_OpenStep => C40_OpenUndisturbed]_vars
C40_CloseContained == [][C40_CloseStep => C40_CloseUndisturbed]_vars

====
